---- MODULE Spec2Model ----
(***************************************************************************)
(* Multi-provider OAuth 2.1 authorization core of the remote MCP gateway:  *)
(* the provider-specific /authorize and /callback handlers of the Google,  *)
(* Auth0, Keycloak and custom OAuth adapters, the state codec, the PKCE    *)
(* helpers and the signed approval cookie.                                 *)
(***************************************************************************)
EXTENDS Integers, Sequences, FiniteSets, TLC

\* ------------------------------------------------------------------------
\* Bounds of the model
\* ------------------------------------------------------------------------
\* number of distinct PKCE verifiers the random source can produce
MaxVerifier == 2
\* number of HTTP requests the gateway handles in one behaviour
MaxRequests == 3

\* ------------------------------------------------------------------------
\* Values
\* ------------------------------------------------------------------------
Providers == {"google", "auth0", "keycloak", "custom"}

ClientIds == {"cA", "cB"}

\* a JavaScript property that is absent reads as undefined
Undef == "undefined"

\* !x of JavaScript, for the string-or-undefined values of the model
Falsy(x) == x \in {Undef, ""}

Verifiers == 1 .. MaxVerifier

\* the environment bindings redirectTo<Provider> branches on; c.env is
\* resolved per request, and a binding is set or not
RedirectEnvVars(p) ==
    CASE p = "google"   -> {}
      [] p = "custom"   -> {}
      [] p = "auth0"    -> {"AUTH0_DOMAIN", "AUTH0_AUDIENCE"}
      [] p = "keycloak" -> {"KEYCLOAK_DOMAIN", "KEYCLOAK_REALM"}

Envs(p) == SUBSET RedirectEnvVars(p)

\* the server-held cookie signing key, (c.env as any).COOKIE_ENCRYPTION_KEY
COOKIE_ENCRYPTION_KEY == "K"

\* ------------------------------------------------------------------------
\* State codec: btoa(JSON.stringify({...oauthReqInfo, codeVerifier})) and
\* JSON.parse(atob(state)).  A string is modelled by how the two decoders
\* treat it: enc says whether atob accepts it, json what JSON.parse makes of
\* the decoded text, obj the object a JSON object text denotes.
\* codeVerifier 0 stands for an absent codeVerifier property.
\* ------------------------------------------------------------------------
NoObj == [clientId |-> Undef, scope |-> Undef, codeVerifier |-> 0]

\* the query parameter is not there: c.req.query("state") is undefined
NoStateParam == [enc |-> "absent", json |-> "text", obj |-> NoObj]

JSONstringify(o) == [json |-> "object", obj |-> o]

Btoa(j) == [enc |-> "b64", json |-> j.json, obj |-> j.obj]

\* atob throws InvalidCharacterError on text that is not base64; an absent
\* parameter is converted to the text "undefined", which is not base64 either
Atob(s) == IF s.enc = "b64"
           THEN [threw |-> FALSE, json |-> s.json, obj |-> s.obj]
           ELSE [threw |-> TRUE, json |-> "text", obj |-> NoObj]

\* JSON.parse throws SyntaxError on text that is not JSON; "null" parses to
\* null and an object text to its object
JSONparse(t) == IF t.json = "text"
                THEN [threw |-> TRUE, isNull |-> FALSE, obj |-> NoObj]
                ELSE [threw |-> FALSE, isNull |-> (t.json = "null"),
                      obj |-> IF t.json = "object" THEN t.obj ELSE NoObj]

\* {...oauthReqInfo, codeVerifier}: the request's own properties, with the
\* codeVerifier property set (or overridden) last
SpreadWithVerifier(oauthReqInfo, codeVerifier) ==
    [oauthReqInfo EXCEPT !.codeVerifier = codeVerifier]

EncodeState(oauthReqInfo, codeVerifier) ==
    Btoa(JSONstringify(SpreadWithVerifier(oauthReqInfo, codeVerifier)))

\* JSON.parse(atob(c.req.query("state"))): threw if either step throws
DecodeState(s) ==
    LET a == Atob(s)
        j == JSONparse(a)
    IN  IF a.threw THEN [threw |-> TRUE, isNull |-> FALSE, obj |-> NoObj]
        ELSE j

\* ------------------------------------------------------------------------
\* PKCE helpers
\* ------------------------------------------------------------------------
\* base64url(SHA-256(verifier)): a one-way digest, kept as a term
generateCodeChallenge(verifier) == [sha256 |-> verifier]

NoChallenge == [sha256 |-> 0]

\* ------------------------------------------------------------------------
\* Signed-cookie approval store (oauth-utils)
\* ------------------------------------------------------------------------
\* HMAC of msg under key, kept as a term: equal exactly for equal key and msg
HmacSign(key, msg) == [key |-> key, msg |-> msg]

NoCookie == [form |-> "absent", clientId |-> "", sig |-> HmacSign("", "")]

MalformedCookie == [form |-> "malformed", clientId |-> "", sig |-> HmacSign("", "")]

\* the cookie directive after an approval of clientId: the signature covers
\* the client id
recordApproval(clientId, secretKey) ==
    [form |-> "ok", clientId |-> clientId, sig |-> HmacSign(secretKey, clientId)]

\* true only for a well-formed cookie whose signature verifies under
\* secretKey and whose client id is the one asked about; false otherwise
clientIdAlreadyApproved(cookie, clientId, secretKey) ==
    /\ cookie.form = "ok"
    /\ cookie.sig = HmacSign(secretKey, cookie.clientId)
    /\ cookie.clientId = clientId

NoReqInfo == NoObj

\* the approval form submission: throws on a payload that does not verify,
\* else gives back the state the dialog carried and the cookie headers
parseRedirectApproval(form, secretKey) ==
    IF ~form.valid
    THEN [threw |-> TRUE, hasReqInfo |-> FALSE, oauthReqInfo |-> NoReqInfo,
          headers |-> NoCookie]
    ELSE [threw |-> FALSE, hasReqInfo |-> form.hasReqInfo,
          oauthReqInfo |-> IF form.hasReqInfo THEN form.oauthReqInfo ELSE NoReqInfo,
          headers |-> IF form.hasReqInfo
                      THEN recordApproval(form.oauthReqInfo.clientId, secretKey)
                      ELSE NoCookie]

\* ------------------------------------------------------------------------
\* URLs and responses
\* ------------------------------------------------------------------------
NoUrl == [to |-> "none", upstream_url |-> "", redirect_uri |-> "", scope |-> "",
          state |-> NoStateParam, code_challenge |-> NoChallenge,
          code_challenge_method |-> Undef, audience |-> FALSE]

\* new URL("/<provider>/callback", request.url).href, the origin left out
CallbackPath(p) == CASE p = "google"   -> "/google/callback"
                     [] p = "auth0"    -> "/auth0/callback"
                     [] p = "keycloak" -> "/keycloak/callback"
                     [] p = "custom"   -> "/custom/callback"

\* the upstream authorize URL: endpoint, redirect URI, scope, state and
\* response_type=code; the PKCE parameters are appended by the caller
getUpstreamAuthorizeUrl(params) ==
    [to |-> "upstream", upstream_url |-> params.upstream_url,
     redirect_uri |-> params.redirect_uri, scope |-> params.scope,
     state |-> params.state, code_challenge |-> NoChallenge,
     code_challenge_method |-> Undef, audience |-> FALSE]

\* url + "&code_challenge=" + codeChallenge + "&code_challenge_method=S256"
AppendPkce(url, codeChallenge) ==
    [url EXCEPT !.code_challenge = codeChallenge, !.code_challenge_method = "S256"]

TextResponse(body, status) ==
    [status |-> status, body |-> body, detail |-> "", location |-> NoUrl,
     setCookie |-> NoCookie]

\* faulty variant: the headers passed in are not spread into the response
RedirectResponse_LocationOnly(headers, location) ==
    [status |-> 302, body |-> "", detail |-> "", location |-> location,
     setCookie |-> NoCookie]

\* new Response(null, {headers: {...headers, location}, status: 302})
RedirectResponse(headers, location) ==
    [status |-> 302, body |-> "", detail |-> "", location |-> location,
     setCookie |-> headers]

\* an exception that leaves the handler: the framework answers for it
UncaughtResponse == TextResponse("Internal Server Error", 500)

NoResponse == TextResponse("", 0)

\* ------------------------------------------------------------------------
\* State
\* ------------------------------------------------------------------------
VARIABLES
    cur,        \* the request being handled, or the last one handled
    issued,     \* the upstream authorize redirects issued so far
    exchanged,  \* the verifiers a token exchange has carried so far
    jar,        \* the approval cookie the browser holds
    nreq        \* requests handled so far

vars == <<cur, issued, exchanged, jar, nreq>>

\* the AuthRequest parseAuthRequest gives back; clientId "" when the request
\* names no client
AuthRequests ==
    [clientId : ClientIds \cup {""}, scope : {"read"}, codeVerifier : {0}]

NewRequest(route, p, e, st, code, oauthReqInfo, cookie) ==
    [route |-> route, provider |-> p, env |-> e, pc |-> "start", state |-> st,
     code |-> code, formValid |-> FALSE,
     oauthReqInfo |-> oauthReqInfo, cookie |-> cookie, calls |-> <<>>,
     tokenOutcome |-> "none", userOutcome |-> "none", upstreamText |-> "",
     log |-> <<>>, response |-> NoResponse]

Idle == [NewRequest("none", "google", {}, NoStateParam, Undef, NoObj, NoCookie)
            EXCEPT !.pc = "done"]

\* the handler returns r
Respond(req, r) == [req EXCEPT !.pc = "done", !.response = r]

\* verifiers the random source has not produced yet: 32 random bytes do not
\* repeat
Generated == {i.state.obj.codeVerifier : i \in issued}

FreshVerifiers == Verifiers \ Generated

\* ------------------------------------------------------------------------
\* redirectTo<Provider>: the upstream authorize redirect
\* ------------------------------------------------------------------------
redirectToGoogle(oauthReqInfo, e, headers, codeVerifier) ==
    LET codeChallenge == generateCodeChallenge(codeVerifier)
        state == EncodeState(oauthReqInfo, codeVerifier)
    IN  RedirectResponse(headers,
            AppendPkce(getUpstreamAuthorizeUrl(
                [redirect_uri |-> CallbackPath("google"),
                 scope |-> "openid profile email gmail.send gmail.readonly",
                 state |-> state,
                 upstream_url |-> "https://accounts.google.com/o/oauth2/v2/auth"]),
              codeChallenge))

redirectToCustomOAuth(oauthReqInfo, e, headers, codeVerifier) ==
    LET codeChallenge == generateCodeChallenge(codeVerifier)
        state == EncodeState(oauthReqInfo, codeVerifier)
        authUrl == getUpstreamAuthorizeUrl(
                [redirect_uri |-> CallbackPath("custom"),
                 scope |-> "read write",
                 state |-> state,
                 upstream_url |-> "${customOAuthUrl}/oauth/authorize"])
    IN  RedirectResponse(headers, AppendPkce(authUrl, codeChallenge))

redirectToKeycloak(oauthReqInfo, e, headers, codeVerifier) ==
    LET codeChallenge == generateCodeChallenge(codeVerifier)
        state == EncodeState(oauthReqInfo, codeVerifier)
        authUrl == getUpstreamAuthorizeUrl(
                [redirect_uri |-> CallbackPath("keycloak"),
                 scope |-> "openid profile email",
                 state |-> state,
                 upstream_url |->
                   "${keycloakDomain}/realms/${encodedRealm}/protocol/openid-connect/auth"])
    IN  IF "KEYCLOAK_DOMAIN" \notin e THEN UncaughtResponse
        ELSE IF "KEYCLOAK_REALM" \notin e THEN UncaughtResponse
        ELSE RedirectResponse(headers, AppendPkce(authUrl, codeChallenge))

redirectToAuth0(oauthReqInfo, e, headers, codeVerifier) ==
    LET codeChallenge == generateCodeChallenge(codeVerifier)
        state == EncodeState(oauthReqInfo, codeVerifier)
        authUrl == getUpstreamAuthorizeUrl(
                [redirect_uri |-> CallbackPath("auth0"),
                 scope |-> "openid profile email",
                 state |-> state,
                 upstream_url |-> "https://${auth0Domain}/authorize"])
        finalAuthUrl == AppendPkce(authUrl, codeChallenge)
    IN  IF "AUTH0_DOMAIN" \notin e THEN UncaughtResponse
        ELSE IF "AUTH0_AUDIENCE" \in e
             THEN RedirectResponse(headers, [finalAuthUrl EXCEPT !.audience = TRUE])
             ELSE RedirectResponse(headers, finalAuthUrl)

redirectToProvider(p, oauthReqInfo, e, headers, codeVerifier) ==
    CASE p = "google"   -> redirectToGoogle(oauthReqInfo, e, headers, codeVerifier)
      [] p = "auth0"    -> redirectToAuth0(oauthReqInfo, e, headers, codeVerifier)
      [] p = "keycloak" -> redirectToKeycloak(oauthReqInfo, e, headers, codeVerifier)
      [] p = "custom"   -> redirectToCustomOAuth(oauthReqInfo, e, headers, codeVerifier)

\* ------------------------------------------------------------------------
\* GET and POST /<provider>/authorize
\* ------------------------------------------------------------------------
\* faulty variant: another property of the request is passed
ApprovalSubject_WrongField(oauthReqInfo) == oauthReqInfo.scope

\* the client id the approval cookie is checked against
ApprovalSubject(oauthReqInfo) == oauthReqInfo.clientId

\* faulty variant: any well-formed cookie is taken for an approval
SkipDialog_CookiePresent(cookie, oauthReqInfo) == cookie.form = "ok"

\* faulty variant: the promise is tested without await, and is always truthy
SkipDialog_NoAwait(cookie, oauthReqInfo) == TRUE

\* if (await clientIdAlreadyApproved(c.req.raw, oauthReqInfo.clientId, key))
SkipDialog(cookie, oauthReqInfo) ==
    clientIdAlreadyApproved(cookie, ApprovalSubject(oauthReqInfo), COOKIE_ENCRYPTION_KEY)

\* what an issued upstream redirect leaves with the browser and the provider
Issue(resp) ==
    IF resp.location.to = "upstream"
    THEN issued \cup {[state |-> resp.location.state,
                       code_challenge |-> resp.location.code_challenge]}
    ELSE issued

DialogResponse == TextResponse("approval dialog", 200)

\* cookies a GET /authorize can carry: none, a malformed one, the browser's
\* own, one signed with a key that is not the server's, and the browser's own
\* with its client id rewritten
RequestCookies ==
    {NoCookie, MalformedCookie, jar}
      \cup {recordApproval(c, "attacker") : c \in ClientIds}
      \cup {[jar EXCEPT !.clientId = c] : c \in {d \in ClientIds : jar.form = "ok"}}

\* approval form submissions: one that does not verify, one whose state has
\* no oauthReqInfo, and the dialog's own for each client
ApprovalForms ==
    {[valid |-> FALSE, hasReqInfo |-> FALSE, oauthReqInfo |-> NoReqInfo],
     [valid |-> TRUE, hasReqInfo |-> FALSE, oauthReqInfo |-> NoReqInfo]}
      \cup {[valid |-> TRUE, hasReqInfo |-> TRUE, oauthReqInfo |-> r] :
              r \in {a \in AuthRequests : a.clientId \in ClientIds}}

CanStart == cur.pc = "done" /\ nreq < MaxRequests

AuthorizeGet(p, e, oauthReqInfo, cookie) ==
    /\ CanStart
    /\ LET r0 == NewRequest("GET /authorize", p, e, NoStateParam, Undef, oauthReqInfo,
                            cookie)
       IN  IF Falsy(oauthReqInfo.clientId)
           THEN /\ cur' = Respond(r0, TextResponse("Invalid request", 400))
                /\ UNCHANGED issued
           ELSE IF SkipDialog(cookie, oauthReqInfo)
           THEN \E codeVerifier \in FreshVerifiers :
                  LET resp == redirectToProvider(p, oauthReqInfo, e, NoCookie,
                                                 codeVerifier)
                  IN  /\ cur' = Respond(r0, resp)
                      /\ issued' = Issue(resp)
           ELSE /\ cur' = Respond(r0, DialogResponse)
                /\ UNCHANGED issued
    /\ nreq' = nreq + 1
    /\ UNCHANGED <<exchanged, jar>>

AuthorizePost(p, e, form) ==
    /\ CanStart
    /\ LET parsed == parseRedirectApproval(form, COOKIE_ENCRYPTION_KEY)
           r0 == [NewRequest("POST /authorize", p, e, NoStateParam, Undef,
                             parsed.oauthReqInfo, NoCookie)
                    EXCEPT !.formValid = form.valid]
       IN  IF parsed.threw
           THEN /\ cur' = Respond(r0, UncaughtResponse)
                /\ UNCHANGED <<issued, jar>>
           ELSE IF ~parsed.hasReqInfo
           THEN /\ cur' = Respond(r0, TextResponse("Invalid request", 400))
                /\ UNCHANGED <<issued, jar>>
           ELSE \E codeVerifier \in FreshVerifiers :
                  LET resp == redirectToProvider(p, parsed.oauthReqInfo, e,
                                                 parsed.headers, codeVerifier)
                  IN  /\ cur' = Respond(r0, resp)
                      /\ issued' = Issue(resp)
                      \* the browser keeps the cookie the response sets
                      /\ jar' = IF resp.setCookie.form = "ok" THEN resp.setCookie
                                ELSE jar
    /\ nreq' = nreq + 1
    /\ UNCHANGED exchanged

\* ------------------------------------------------------------------------
\* Strings of the userinfo payload: sequences of characters, so that split
\* is computed.  UndefStr is the undefined of an absent property.
\* ------------------------------------------------------------------------
UndefStr == <<"undefined">>

FalsyStr(x) == x = UndefStr \/ x = <<>>

\* a || b
OrElse(a, b) == IF FalsyStr(a) THEN b ELSE a

\* index of the first sep in str, 0 if there is none
IndexOf(str, sep) ==
    IF \E i \in 1 .. Len(str) : str[i] = sep
    THEN CHOOSE i \in 1 .. Len(str) :
            str[i] = sep /\ \A j \in 1 .. (i - 1) : str[j] # sep
    ELSE 0

\* str.split(sep)[0]: the text before the first sep, all of it if none
SplitFirst(str, sep) ==
    IF IndexOf(str, sep) = 0 THEN str ELSE SubSeq(str, 1, IndexOf(str, sep) - 1)

\* str.split(sep)[1]: the text between the first and the second sep,
\* undefined if str has no sep
SplitSecond(str, sep) ==
    IF IndexOf(str, sep) = 0 THEN UndefStr
    ELSE SplitFirst(SubSeq(str, IndexOf(str, sep) + 1, Len(str)), sep)

\* ------------------------------------------------------------------------
\* Login derivation.  Each gives [threw, login]: threw when the expression
\* throws a TypeError (a method call on undefined).
\* ------------------------------------------------------------------------
Threw == [threw |-> TRUE, login |-> UndefStr]

Derived(login) == [threw |-> FALSE, login |-> login]

\* faulty variant: the email is used whole
GoogleLogin_WholeEmail(userData) ==
    IF userData.email = UndefStr THEN Threw ELSE Derived(userData.email)

\* email.split('@')[0]
GoogleLogin(userData) ==
    IF userData.email = UndefStr THEN Threw
    ELSE Derived(SplitFirst(userData.email, "@"))

\* nickname || email?.split('@')[0] || sub.split('|')[1] || 'unknown'
Auth0Login(userData) ==
    LET emailLocal == IF userData.email = UndefStr THEN UndefStr
                      ELSE SplitFirst(userData.email, "@")
    IN  IF ~FalsyStr(userData.nickname) THEN Derived(userData.nickname)
        ELSE IF ~FalsyStr(emailLocal) THEN Derived(emailLocal)
        ELSE IF userData.sub = UndefStr THEN Threw
        ELSE Derived(OrElse(SplitSecond(userData.sub, "|"),
                            <<"u", "n", "k", "n", "o", "w", "n">>))

\* faulty variant: sub is tried before the email
KeycloakLogin_SubFirst(userData) ==
    LET emailLocal == IF userData.email = UndefStr THEN UndefStr
                      ELSE SplitFirst(userData.email, "@")
    IN  Derived(OrElse(userData.preferred_username,
                  OrElse(userData.sub,
                    OrElse(emailLocal, <<"u", "n", "k", "n", "o", "w", "n">>))))

\* preferred_username || email?.split('@')[0] || sub || 'unknown'
KeycloakLogin(userData) ==
    LET emailLocal == IF userData.email = UndefStr THEN UndefStr
                      ELSE SplitFirst(userData.email, "@")
    IN  Derived(OrElse(userData.preferred_username,
                  OrElse(emailLocal,
                    OrElse(userData.sub, <<"u", "n", "k", "n", "o", "w", "n">>))))

\* faulty variant: user_id is tried before username
CustomLogin_IdFirst(userData) ==
    Derived(OrElse(userData.user_id,
              OrElse(userData.username,
                     <<"d", "e", "m", "o", "_", "u", "s", "e", "r">>)))

\* username || user_id || 'demo_user'
CustomLogin(userData) ==
    Derived(OrElse(userData.username,
              OrElse(userData.user_id,
                     <<"d", "e", "m", "o", "_", "u", "s", "e", "r">>)))

DeriveLogin(p, userData) ==
    CASE p = "google"   -> GoogleLogin(userData)
      [] p = "auth0"    -> Auth0Login(userData)
      [] p = "keycloak" -> KeycloakLogin(userData)
      [] p = "custom"   -> CustomLogin(userData)

NoUser == [email |-> UndefStr, nickname |-> UndefStr, sub |-> UndefStr,
           preferred_username |-> UndefStr, username |-> UndefStr,
           user_id |-> UndefStr, name |-> UndefStr, given_name |-> UndefStr,
           family_name |-> UndefStr]

\* userinfo payloads an upstream can answer with: an empty object, and one
\* identity field at a time
UserPayloads(p) ==
    {NoUser, [NoUser EXCEPT !.email = <<"j", "@", "g">>]}
      \cup (CASE p = "google" -> {}
              [] p = "auth0" ->
                   {[NoUser EXCEPT !.nickname = <<"n">>],
                    [NoUser EXCEPT !.sub = <<"a", "|", "b">>]}
              [] p = "keycloak" ->
                   {[NoUser EXCEPT !.preferred_username = <<"p">>],
                    [NoUser EXCEPT !.sub = <<"s">>]}
              [] p = "custom" ->
                   {[NoUser EXCEPT !.username = <<"u">>],
                    [NoUser EXCEPT !.user_id = <<"i">>]})

\* ------------------------------------------------------------------------
\* GET /<provider>/callback
\* ------------------------------------------------------------------------
\* how an outbound fetch can end by throwing: a TypeError, an Error whose
\* message says 'Network connection lost', any other Error
FetchErrors == {"TypeError", "ConnLost", "OtherError"}

\* how the token request can end: a throw, a non-2xx response, a 2xx response
\* whose body is not JSON, is JSON null, is an object without access_token,
\* is an object with one
TokenOutcomes == FetchErrors \cup {"non2xx", "badJson", "jsonNull", "noToken", "token"}

\* the same for the userinfo request; "payload" is a 2xx JSON object
UserOutcomes == FetchErrors \cup {"non2xx", "badJson", "jsonNull", "payload"}

\* what the upstream alone decides about a failure: the body of a non-2xx
\* response, the body that is not JSON, the message of an Error that is
\* neither a TypeError nor a lost connection; two of each
UpstreamTexts(o) ==
    IF o \in {"OtherError", "non2xx", "badJson"} THEN {"e1", "e2"} ELSE {""}

Stop(r) == [go |-> FALSE, response |-> r]

Go == [go |-> TRUE, response |-> NoResponse]

\* faulty variant: the access_token check is left out
GoogleOnToken_NoTokenCheck(o, text) ==
    CASE o \in FetchErrors \cup {"badJson"} ->
            Stop(TextResponse("Network error during authentication. Please try again.", 500))
      [] o = "non2xx" -> Stop(TextResponse("Failed to fetch access token: ${status}", 500))
      [] o = "jsonNull" -> Stop(UncaughtResponse)
      [] o \in {"noToken", "token"} -> Go

\* Google: one try block per fetch, the catch answers the same for any error
GoogleOnToken(o, text) ==
    CASE o \in FetchErrors \cup {"badJson"} ->
            Stop(TextResponse("Network error during authentication. Please try again.", 500))
      [] o = "non2xx" -> Stop(TextResponse("Failed to fetch access token: ${status}", 500))
      \* tokenData.access_token on null, outside the try
      [] o = "jsonNull" -> Stop(UncaughtResponse)
      [] o = "noToken" -> Stop(TextResponse("Missing access token", 400))
      [] o = "token" -> Go

GoogleOnUser(o, text) ==
    CASE o \in FetchErrors \cup {"badJson"} ->
            Stop(TextResponse("Network error while fetching user information. Please try again.", 500))
      [] o = "non2xx" -> Stop(TextResponse("Failed to fetch user info: ${status}", 500))
      \* destructuring null, outside the try
      [] o = "jsonNull" -> Stop(UncaughtResponse)
      [] o = "payload" -> Go

\* Auth0, Keycloak, custom: one try block around both fetches; the catch
\* tells a connectivity failure by the error's message or name
CatchResponse(label, errName, errMessage) ==
    IF errMessage = "Network connection lost" \/ errMessage = "fetch failed"
         \/ errName = "TypeError"
    THEN TextResponse("Network connectivity issue.", 500)
    ELSE [TextResponse("${label} integration error: ${error.message}", 500)
            EXCEPT !.detail = errMessage]

\* the error object of each way a step inside the try can throw
Caught(label, o, text) ==
    CASE o = "TypeError"  -> CatchResponse(label, "TypeError", "fetch failed")
      [] o = "ConnLost"   -> CatchResponse(label, "Error", "Network connection lost")
      [] o = "OtherError" -> CatchResponse(label, "Error", text)
      \* response.json() on a body that is not JSON: the SyntaxError's message
      \* quotes the start of the body
      [] o = "badJson"    -> CatchResponse(label, "SyntaxError", text)
      \* property access on null
      [] o = "nullAccess" -> CatchResponse(label, "TypeError", "Cannot read properties of null")

TryOnToken(label, o, text) ==
    CASE o \in FetchErrors \cup {"badJson"} -> Stop(Caught(label, o, text))
      [] o = "non2xx" ->
            Stop(TextResponse("Failed to fetch access token: ${status} ${statusText}", 500))
      \* tokenData.access_token on null, inside the try
      [] o = "jsonNull" -> Stop(Caught(label, "nullAccess", text))
      [] o = "noToken" -> Stop(TextResponse("Missing access token in response", 400))
      [] o = "token" -> Go

\* faulty variant: the non-2xx branch of the userinfo fetch does not return
TryOnUser_NoReturn(label, o, text) ==
    CASE o \in FetchErrors \cup {"badJson"} -> Stop(Caught(label, o, text))
      [] o = "jsonNull" -> Stop(UncaughtResponse)
      [] o \in {"non2xx", "payload"} -> Go

TryOnUser(label, o, text) ==
    CASE o \in FetchErrors \cup {"badJson"} -> Stop(Caught(label, o, text))
      [] o = "non2xx" ->
            Stop(TextResponse("Failed to fetch user info: ${status} ${statusText}", 500))
      \* destructuring null, after the try
      [] o = "jsonNull" -> Stop(UncaughtResponse)
      [] o = "payload" -> Go

Auth0OnToken(o, text) == TryOnToken("Auth0", o, text)

Auth0OnUser(o, text) == TryOnUser("Auth0", o, text)

\* faulty variant: the non-2xx branch logs and does not return
KeycloakOnToken_NoReturn(o, text) ==
    IF o = "non2xx" THEN Go ELSE TryOnToken("Keycloak", o, text)

KeycloakOnToken(o, text) == TryOnToken("Keycloak", o, text)

KeycloakOnUser(o, text) == TryOnUser("Keycloak", o, text)

CustomOnToken(o, text) == TryOnToken("Custom OAuth", o, text)

CustomOnUser(o, text) == TryOnUser("Custom OAuth", o, text)

OnToken(p, o, text) ==
    CASE p = "google"   -> GoogleOnToken(o, text)
      [] p = "auth0"    -> Auth0OnToken(o, text)
      [] p = "keycloak" -> KeycloakOnToken(o, text)
      [] p = "custom"   -> CustomOnToken(o, text)

OnUser(p, o, text) ==
    CASE p = "google"   -> GoogleOnUser(o, text)
      [] p = "auth0"    -> Auth0OnUser(o, text)
      [] p = "keycloak" -> KeycloakOnUser(o, text)
      [] p = "custom"   -> CustomOnUser(o, text)

\* faulty variant: the token request data is logged before the exchange
CallbackLog_RequestData(p, step, o) ==
    IF step = "start" /\ o = "proceed"
    THEN <<{"grant_type", "client_id", "client_secret", "code", "redirect_uri",
            "code_verifier"}>>
    ELSE <<>>

\* The console calls of a callback handler, in order, each as the set of the
\* values it is passed besides its fixed message; a value is named by what it
\* is read from. tokenData is logged only when it has no access_token; the
\* authorize handlers make no console call.
CallbackLog(p, step, o) ==
    LET thrown == FetchErrors \cup {"badJson"}
        caught == <<{"error.message", "error.stack", "error.name"}>>
        failed == <<{"status", "statusText", "errorText"}>>
    IN  IF step = "start"
        THEN IF o = "missingCode"
             THEN (IF p = "google" THEN <<{}>> ELSE <<>>)
             ELSE (CASE p = "google"   -> <<{"redirectUri"}, {"!!codeVerifier"}>>
                     [] p = "keycloak" -> <<{"keycloakDomain", "keycloakRealm"}>>
                     [] p = "auth0"    -> <<{"auth0Domain"}>>
                     [] p = "custom"   -> <<{"customOAuthUrl"}>>)
        ELSE IF p = "google"
        THEN (CASE o \in thrown -> <<{"error"}>>
                [] o = "non2xx" -> <<{"errorText"}>>
                [] OTHER -> <<>>)
        ELSE IF step = "token"
        THEN (CASE o \in thrown \cup {"jsonNull"} -> caught
                [] o = "non2xx" -> failed
                [] o = "noToken" -> <<{"tokenData.error", "tokenData.error_description"}>>
                [] o = "token" -> <<{}>>)
        ELSE (CASE o \in thrown -> caught
                [] o = "non2xx" -> failed
                [] OTHER -> <<{}>>)

\* the `state` query parameter of a callback: absent, not base64, base64 of
\* text that is not JSON, base64 of null, or base64 of a JSON object (any
\* object, whether or not this gateway issued it; a verifier in it is one
\* that an issued state carried, since a verifier cannot be guessed)
StateObjs ==
    [clientId : ClientIds, scope : {"read"}, codeVerifier : {0} \cup Generated]
      \cup [clientId : {Undef, ""}, scope : {"read"}, codeVerifier : {0}]

QueryStates ==
    {NoStateParam,
     [enc |-> "raw", json |-> "text", obj |-> NoObj],
     [enc |-> "b64", json |-> "text", obj |-> NoObj],
     [enc |-> "b64", json |-> "null", obj |-> NoObj]}
      \cup {Btoa(JSONstringify(o)) : o \in StateObjs}

\* the `code` query parameter: absent, or an authorization code
QueryCodes == {Undef, "code1"}

\* faulty variant: a property the state does not have is read
TokenCodeVerifier_WrongProperty(oauthReqInfo) == 0

\* code_verifier of the token request
TokenCodeVerifier(oauthReqInfo) == oauthReqInfo.codeVerifier

\* faulty variant: only an absent client id is refused, an empty one passes
InvalidState_UndefinedOnly(oauthReqInfo) == oauthReqInfo.clientId = Undef

\* if (!oauthReqInfo.clientId)
\* faulty variant: a state no /authorize response carried is refused too
InvalidState_Unissued(oauthReqInfo) ==
    \/ Falsy(oauthReqInfo.clientId)
    \/ \A i \in issued : i.state.obj # oauthReqInfo

InvalidState(oauthReqInfo) == Falsy(oauthReqInfo.clientId)

\* faulty variant: the code parameter is not checked
MissingCode_Unchecked(code) == FALSE

\* if (!code)
MissingCode(code) == Falsy(code)

\* replay: the verifier of a token request had been carried by an earlier one
Call(to, codeVerifier, p, oauthReqInfo, login) ==
    [to |-> to, code_verifier |-> codeVerifier, redirect_uri |-> CallbackPath(p),
     request |-> oauthReqInfo, login |-> login,
     replay |-> (to = "token" /\ codeVerifier \in exchanged)]

\* faulty variant: the token request is sent again
TokenRequests_Retried(p, oauthReqInfo) ==
    <<Call("token", oauthReqInfo.codeVerifier, p, oauthReqInfo, UndefStr),
      Call("token", oauthReqInfo.codeVerifier, p, oauthReqInfo, UndefStr)>>

\* the token requests of one callback: a single fetch
TokenRequests(p, oauthReqInfo) ==
    <<Call("token", TokenCodeVerifier(oauthReqInfo), p, oauthReqInfo, UndefStr)>>

\* from the start of the handler to the token request
CallbackStart(p, st, code) ==
    /\ CanStart
    /\ LET stateData == DecodeState(st)
           r0 == NewRequest("GET /callback", p, {}, st, code, stateData.obj, NoCookie)
       IN  \* JSON.parse(atob(...)) throws, or .clientId is read off null
           IF stateData.threw \/ stateData.isNull
           THEN /\ cur' = Respond(r0, UncaughtResponse)
                /\ UNCHANGED exchanged
           ELSE IF InvalidState(stateData.obj)
           THEN /\ cur' = Respond(r0, TextResponse("Invalid state", 400))
                /\ UNCHANGED exchanged
           ELSE IF MissingCode(code)
           THEN /\ cur' = Respond([r0 EXCEPT !.log = CallbackLog(p, "start", "missingCode")],
                                  TextResponse("Missing authorization code", 400))
                /\ UNCHANGED exchanged
           ELSE /\ cur' = [r0 EXCEPT
                    !.pc = "awaitToken",
                    !.log = CallbackLog(p, "start", "proceed"),
                    !.calls = @ \o TokenRequests(p, stateData.obj)]
                /\ exchanged' = exchanged \cup
                                  ({TokenCodeVerifier(stateData.obj)} \cap Verifiers)
    /\ nreq' = nreq + 1
    /\ UNCHANGED <<issued, jar>>

\* the token request ends; on an access token, the userinfo request is sent
TokenReturns(o, text) ==
    /\ cur.pc = "awaitToken"
    /\ LET r == OnToken(cur.provider, o, text)
           c1 == [cur EXCEPT !.tokenOutcome = o, !.upstreamText = text,
                             !.log = @ \o CallbackLog(cur.provider, "token", o)]
       IN  IF r.go
           THEN cur' = [c1 EXCEPT
                    !.pc = "awaitUser",
                    !.calls = Append(@, Call("userinfo", 0, cur.provider,
                                             cur.oauthReqInfo, UndefStr))]
           ELSE cur' = Respond(c1, r.response)
    /\ UNCHANGED <<issued, exchanged, jar, nreq>>

\* the userinfo request ends; on a payload the identity is normalized and
\* handed to completeAuthorization
UserReturns(o, text, userData) ==
    /\ cur.pc = "awaitUser"
    /\ LET r == OnUser(cur.provider, o, text)
           c1 == [cur EXCEPT !.userOutcome = o, !.upstreamText = text,
                             !.log = @ \o CallbackLog(cur.provider, "user", o)]
           d == DeriveLogin(cur.provider, userData)
       IN  IF ~r.go THEN cur' = Respond(c1, r.response)
           ELSE IF d.threw THEN cur' = Respond(c1, UncaughtResponse)
           ELSE cur' = [c1 EXCEPT
                    !.pc = "awaitComplete",
                    !.calls = Append(@, Call("complete", 0, cur.provider,
                                             cur.oauthReqInfo, d.login))]
    /\ UNCHANGED <<issued, exchanged, jar, nreq>>

ClientUrl == [NoUrl EXCEPT !.to = "client"]

\* completeAuthorization gives redirectTo: Response.redirect(redirectTo)
CompleteReturns ==
    /\ cur.pc = "awaitComplete"
    /\ cur' = Respond(cur, RedirectResponse(NoCookie, ClientUrl))
    /\ UNCHANGED <<issued, exchanged, jar, nreq>>

\* ------------------------------------------------------------------------
\* Specification
\* ------------------------------------------------------------------------
Init ==
    /\ cur = Idle
    /\ issued = {}
    /\ exchanged = {}
    /\ jar = NoCookie
    /\ nreq = 0

Next ==
    \/ \E p \in Providers, r \in AuthRequests, k \in RequestCookies :
          \E e \in Envs(p) : AuthorizeGet(p, e, r, k)
    \/ \E p \in Providers, f \in ApprovalForms :
          \E e \in Envs(p) : AuthorizePost(p, e, f)
    \/ \E p \in Providers, st \in QueryStates, code \in QueryCodes :
          CallbackStart(p, st, code)
    \/ \E o \in TokenOutcomes : \E text \in UpstreamTexts(o) : TokenReturns(o, text)
    \/ \E o \in UserOutcomes : \E text \in UpstreamTexts(o) :
          \E u \in IF o = "payload" THEN UserPayloads(cur.provider) ELSE {NoUser} :
             UserReturns(o, text, u)
    \/ CompleteReturns

Spec == Init /\ [][Next]_vars

\* The handler's own continuation runs once the promise it awaits settles:
\* completeAuthorization is the gateway's own library and settles. No fetch is
\* given a signal or a timer, and no handler races its fetch against one, so
\* nothing in the gateway makes a pending fetch settle: the token and userinfo
\* endpoints answer when, and if, they choose to.
FairSpec == Init /\ [][Next]_vars /\ WF_vars(CompleteReturns)

\* ------------------------------------------------------------------------
\* The provider router (authRouter): the root /authorize handler, the
\* mounted provider handlers and, in index.ts, the shared /callback handler.
\* A request URL is a sequence of lexical items: the path, then "?", "&" and
\* parameter texts, so that url.split('?') is computed.
\* ------------------------------------------------------------------------
\* items after the first "?" of the request URLs tried
MaxQueryItems == 3

\* the two entry modules of the repository
RouterBuilds == {"index.ts", "index_sentry.ts"}

RouterEnvVars == {"GITHUB_CLIENT_ID", "GOOGLE_CLIENT_ID", "AUTH0_DOMAIN",
                  "AUTH0_CLIENT_ID", "KEYCLOAK_DOMAIN", "KEYCLOAK_CLIENT_ID",
                  "KEYCLOAK_REALM", "CUSTOM_OAUTH_URL"}

\* the mounted handlers, in the order the root handler tests them
RouterProviders == <<"github", "google", "auth0", "keycloak", "custom">>

ProviderPath(p) == CASE p = "github"   -> "/github"
                     [] p = "google"   -> "/google"
                     [] p = "auth0"    -> "/auth0"
                     [] p = "keycloak" -> "/keycloak"
                     [] p = "custom"   -> "/custom"

\* if (env.X) providers.push(...)
ProviderConfigured(p, env) ==
    CASE p = "github"   -> "GITHUB_CLIENT_ID" \in env
      [] p = "google"   -> "GOOGLE_CLIENT_ID" \in env
      [] p = "auth0"    -> "AUTH0_DOMAIN" \in env /\ "AUTH0_CLIENT_ID" \in env
      [] p = "keycloak" -> "KEYCLOAK_DOMAIN" \in env /\ "KEYCLOAK_CLIENT_ID" \in env
      [] p = "custom"   -> "CUSTOM_OAUTH_URL" \in env

DetectProviders(env) ==
    SelectSeq(RouterProviders, LAMBDA p : ProviderConfigured(p, env))

\* c.req.url.includes('?') ? c.req.url.split('?')[1] : ''
QueryString(url) ==
    IF IndexOf(url, "?") # 0 THEN SplitSecond(url, "?") ELSE <<>>

RouterResponse(status, kind, location, links, body) ==
    [status |-> status, kind |-> kind, location |-> location, links |-> links,
     body |-> body]

\* Hono's answer for a path no route matches
NotFoundResponse == RouterResponse(404, "text", <<>>, <<>>, "404 Not Found")

\* faulty variant: the selection page is rendered whenever the number of
\* configured providers is not one
RootAuthorizeResponse_PageUnlessOne(env, url) ==
    LET providers == DetectProviders(env)
        queryString == QueryString(url)
    IN  IF Len(providers) = 1
        THEN RouterResponse(302, "redirect",
                <<ProviderPath(providers[1]), "/authorize">>
                   \o (IF queryString # <<>> THEN <<"?">> \o queryString ELSE <<>>),
                <<>>, "")
        ELSE RouterResponse(200, "html", <<>>,
                [i \in 1 .. Len(providers) |->
                    <<ProviderPath(providers[i]), "/authorize", "?">> \o queryString],
                "Choose Authentication Provider")

\* authRouter.get("/authorize")
RootAuthorizeResponse(env, url) ==
    LET providers == DetectProviders(env)
        queryString == QueryString(url)
    IN  IF Len(providers) = 1
        THEN RouterResponse(302, "redirect",
                <<ProviderPath(providers[1]), "/authorize">>
                   \o (IF queryString # <<>> THEN <<"?">> \o queryString ELSE <<>>),
                <<>>, "")
        ELSE IF Len(providers) > 1
        THEN RouterResponse(200, "html", <<>>,
                [i \in 1 .. Len(providers) |->
                    <<ProviderPath(providers[i]), "/authorize", "?">> \o queryString],
                "Choose Authentication Provider")
        ELSE RouterResponse(500, "text", <<>>, <<>>,
                "No OAuth providers configured. Please check your environment variables.")

\* the query parameters the shared /callback handler of index.ts reads
NoParams == [code |-> Undef, scope |-> Undef, session_state |-> Undef,
             iss |-> Undef, authuser |-> Undef]

CallbackParams ==
    [code : {Undef, "code-of-20-chars", "code-of-64-chars"},
     scope : {Undef, "openid profile email",
              "https://www.googleapis.com/auth/userinfo.email"},
     session_state : {Undef, "sess1"},
     iss : {Undef, "https://keycloak.example/realms/r", "https://idp.example"},
     authuser : {Undef, "0"}]

\* str.includes(sub), for the parameter texts above
Includes(str, sub) ==
    <<str, sub>> \in
      {<<"openid profile email", "openid">>,
       <<"https://www.googleapis.com/auth/userinfo.email", "googleapis.com">>,
       <<"https://keycloak.example/realms/r", "keycloak">>}

\* authRouter.get("/callback") of index.ts: the provider is guessed from the
\* query parameters and the environment, and the request is redirected to
\* its callback with the query string kept
RootCallbackResponse(env, q) ==
    LET guessed ==
          IF ~Falsy(q.iss) /\ (Includes(q.iss, "keycloak")
                                 \/ Includes(q.iss, "localhost:8080"))
            THEN "/keycloak"
          ELSE IF ~Falsy(q.session_state) /\ ~Falsy(q.iss) THEN "/keycloak"
          ELSE IF ~Falsy(q.scope) /\ Includes(q.scope, "googleapis.com") THEN "/google"
          ELSE IF q.authuser # Undef THEN "/google"
          ELSE IF ~Falsy(q.scope) /\ Includes(q.scope, "openid")
                    /\ "AUTH0_DOMAIN" \in env THEN "/auth0"
          ELSE IF "AUTH0_DOMAIN" \in env /\ "AUTH0_CLIENT_ID" \in env THEN "/auth0"
          \* code.length > 60
          ELSE IF q.code = "code-of-64-chars" /\ "CUSTOM_OAUTH_URL" \in env
            THEN "/custom"
          ELSE IF "GITHUB_CLIENT_ID" \in env THEN "/github"
          ELSE ""
        configuredProviders == DetectProviders(env)
        providerPath ==
          IF guessed = "" /\ Len(configuredProviders) = 1
          THEN ProviderPath(configuredProviders[1]) ELSE guessed
    IN  IF Falsy(q.code)
        THEN RouterResponse(400, "text", <<>>, <<>>, "Missing authorization code")
        ELSE IF providerPath = ""
        THEN RouterResponse(400, "text", <<>>, <<>>,
                "Unable to determine OAuth provider from callback. Please check your configuration.")
        ELSE RouterResponse(302, "redirect",
                <<providerPath, "/callback", "${url.search}">>, <<>>, "")

\* the route table: the handler a method and path are dispatched to
RouteHandler(build, method, path) ==
    IF \E i \in 1 .. Len(RouterProviders) :
          path = <<ProviderPath(RouterProviders[i]), "/authorize">>
            /\ method \in {"GET", "POST"}
    THEN "provider authorize"
    ELSE IF \E i \in 1 .. Len(RouterProviders) :
          path = <<ProviderPath(RouterProviders[i]), "/callback">> /\ method = "GET"
    THEN "provider callback"
    ELSE IF path = <<"/authorize">> /\ method = "GET" THEN "root authorize"
    ELSE IF path = <<"/callback">> /\ method = "GET" /\ build = "index.ts"
    THEN "root callback"
    ELSE "not found"

\* sequences over alphabet of length at most n
SeqsUpTo(alphabet, n) == UNION {[1 .. k -> alphabet] : k \in 0 .. n}

\* request URLs of the root authorize route: the path alone, or the path,
\* "?" and up to MaxQueryItems further items
AuthorizeUrls ==
    {<<"/authorize">>}
      \cup {<<"/authorize", "?">> \o t :
              t \in SeqsUpTo({"?", "&", "client_id=x", "redirect_uri=y"}, MaxQueryItems)}

RouterPaths ==
    {<<"/authorize">>, <<"/callback">>, <<"/">>}
      \cup {<<ProviderPath(RouterProviders[i]), r>> :
              i \in 1 .. Len(RouterProviders), r \in {"/authorize", "/callback"}}

\* a request as it reaches the router of one deployment (entry module and
\* environment bindings)
RouterRequest(build, env, method, url, q) ==
    [build |-> build, env |-> env, pc |-> "start", method |-> method, url |-> url,
     params |-> q, handler |-> "none",
     response |-> RouterResponse(0, "none", <<>>, <<>>, "")]

Routed(handler) ==
    /\ cur.pc = "start"
    \* the path of the request URL is what precedes its first "?"
    /\ RouteHandler(cur.build, cur.method, SplitFirst(cur.url, "?")) = handler

RouterRespond(handler, r) ==
    /\ cur' = [cur EXCEPT !.pc = "done", !.handler = handler, !.response = r]
    /\ UNCHANGED <<issued, exchanged, jar, nreq>>

RootAuthorize ==
    /\ Routed("root authorize")
    /\ RouterRespond("root authorize", RootAuthorizeResponse(cur.env, cur.url))

RootCallback ==
    /\ Routed("root callback")
    /\ RouterRespond("root callback", RootCallbackResponse(cur.env, cur.params))

\* the request goes to the provider handler mounted under its path prefix
MountedRoute ==
    \E h \in {"provider authorize", "provider callback"} :
        /\ Routed(h)
        /\ RouterRespond(h, RouterResponse(0, "mounted", <<>>, <<>>, ""))

NotFound ==
    /\ Routed("not found")
    /\ RouterRespond("not found", NotFoundResponse)

\* one request to one deployment: a root authorize request, a shared
\* callback request, or a request for any other path
RouterInit ==
    /\ \E b \in RouterBuilds :
          \/ \E e \in SUBSET RouterEnvVars :
                \/ \E u \in AuthorizeUrls : cur = RouterRequest(b, e, "GET", u, NoParams)
                \/ \E q \in CallbackParams :
                      cur = RouterRequest(b, e, "GET", <<"/callback">>, q)
          \/ \E m \in {"GET", "POST"}, u \in RouterPaths :
                cur = RouterRequest(b, {}, m, u, NoParams)
    /\ issued = {}
    /\ exchanged = {}
    /\ jar = NoCookie
    /\ nreq = 0

RouterNext == RootAuthorize \/ RootCallback \/ MountedRoute \/ NotFound

RouterSpec == RouterInit /\ [][RouterNext]_vars

\* ------------------------------------------------------------------------
\* The state codec on texts.  A text is a sequence of character codes; the
\* operators compute what JSON.stringify, btoa, atob and JSON.parse do to an
\* object whose properties are strings or absent.  (JSONstringify, Btoa,
\* Atob and JSONparse above keep only what the handlers branch on.)
\* ------------------------------------------------------------------------
\* length of the texts tried as property values
MaxStrLen == 3

\* an absent property, where a text is expected
UndefText == <<-1>>

\* the properties of {...oauthReqInfo, codeVerifier}, in insertion order
PropertyOrder == <<"clientId", "state", "codeChallenge", "codeVerifier">>

\* the property names as they are written in the JSON text (one letter each)
KeyText(k) == CASE k = "clientId"      -> <<99>>
                [] k = "state"         -> <<115>>
                [] k = "codeChallenge" -> <<104>>
                [] k = "codeVerifier"  -> <<118>>

EmptyObject == [k \in {PropertyOrder[i] : i \in 1 .. Len(PropertyOrder)} |-> UndefText]

\* JSON.stringify: properties whose value is undefined are left out; in a
\* string literal '"' (34) and '\' (92) are escaped with '\'
stringify(obj) ==
    LET RECURSIVE Esc(_)
        Esc(str) == IF str = <<>> THEN <<>>
                    ELSE (IF Head(str) \in {34, 92} THEN <<92, Head(str)>>
                          ELSE <<Head(str)>>) \o Esc(Tail(str))
        Quote(str) == <<34>> \o Esc(str) \o <<34>>
        present == SelectSeq(PropertyOrder, LAMBDA k : obj[k] # UndefText)
        RECURSIVE Members(_)
        Members(i) ==
            IF i > Len(present) THEN <<>>
            ELSE (IF i > 1 THEN <<44>> ELSE <<>>)
                   \o Quote(KeyText(present[i])) \o <<58>> \o Quote(obj[present[i]])
                   \o Members(i + 1)
    IN  <<123>> \o Members(1) \o <<125>>

\* btoa: InvalidCharacterError on a character above U+00FF; else three
\* bytes become four digits 0..63, with the digit 64 for the padding '='
btoa(text) ==
    LET RECURSIVE Enc(_)
        Enc(b) ==
            IF b = <<>> THEN <<>>
            ELSE IF Len(b) = 1
              THEN <<b[1] \div 4, (b[1] % 4) * 16, 64, 64>>
            ELSE IF Len(b) = 2
              THEN <<b[1] \div 4, (b[1] % 4) * 16 + b[2] \div 16, (b[2] % 16) * 4, 64>>
            ELSE <<b[1] \div 4, (b[1] % 4) * 16 + b[2] \div 16,
                   (b[2] % 16) * 4 + b[3] \div 64, b[3] % 64>>
                   \o Enc(SubSeq(b, 4, Len(b)))
    IN  IF \E i \in 1 .. Len(text) : text[i] > 255
        THEN [threw |-> TRUE, out |-> <<>>]
        ELSE [threw |-> FALSE, out |-> Enc(text)]

\* atob: InvalidCharacterError unless the digits come in fours with padding
\* only at the end; else four digits become up to three bytes
atob(digits) ==
    LET n == Len(digits)
        RECURSIVE Dec(_)
        Dec(q) ==
            IF q = <<>> THEN <<>>
            ELSE <<q[1] * 4 + q[2] \div 16>>
                   \o (IF q[3] = 64 THEN <<>>
                       ELSE <<(q[2] % 16) * 16 + q[3] \div 4>>
                              \o (IF q[4] = 64 THEN <<>>
                                  ELSE <<(q[3] % 4) * 64 + q[4]>>))
                   \o Dec(SubSeq(q, 5, Len(q)))
        wellFormed ==
            /\ n % 4 = 0
            /\ \A i \in 1 .. n : digits[i] \in 0 .. 64
            /\ \A i \in 1 .. n : digits[i] = 64 =>
                  /\ i >= n - 1
                  /\ digits[n] = 64
    IN  IF wellFormed THEN [threw |-> FALSE, out |-> Dec(digits)]
        ELSE [threw |-> TRUE, out |-> <<>>]

\* JSON.parse of an object of string properties: SyntaxError on any other
\* text; a property not in the text is absent from the object
parse(text) ==
    LET n == Len(text)
        At(i) == IF i <= n THEN text[i] ELSE -1
        NoStr == [ok |-> FALSE, val |-> <<>>, next |-> 0]
        Fail == [threw |-> TRUE, obj |-> EmptyObject]
        RECURSIVE Str(_, _)
        Str(i, acc) ==
            IF i > n THEN NoStr
            ELSE IF text[i] = 34 THEN [ok |-> TRUE, val |-> acc, next |-> i + 1]
            ELSE IF text[i] = 92
              THEN IF At(i + 1) \in {34, 92} THEN Str(i + 2, Append(acc, text[i + 1]))
                   ELSE NoStr
            ELSE Str(i + 1, Append(acc, text[i]))
        ReadStr(i) == IF At(i) = 34 THEN Str(i + 1, <<>>) ELSE NoStr
        RECURSIVE Members(_, _)
        Members(i, obj) ==
            LET k == ReadStr(i)
                v == ReadStr(k.next + 1)
                names == {j \in 1 .. Len(PropertyOrder) : KeyText(PropertyOrder[j]) = k.val}
                obj2 == IF names = {} THEN obj
                        ELSE [obj EXCEPT ![PropertyOrder[CHOOSE j \in names : TRUE]] = v.val]
            IN  IF ~k.ok THEN Fail
                ELSE IF At(k.next) # 58 THEN Fail
                ELSE IF ~v.ok THEN Fail
                ELSE IF At(v.next) = 44 THEN Members(v.next + 1, obj2)
                ELSE IF At(v.next) = 125 /\ v.next = n THEN [threw |-> FALSE, obj |-> obj2]
                ELSE Fail
    IN  IF At(1) # 123 THEN Fail
        ELSE IF At(2) = 125 /\ n = 2 THEN [threw |-> FALSE, obj |-> EmptyObject]
        ELSE Members(2, EmptyObject)

\* the authorization requests the codec is tried on: a client id, the
\* client's own opaque state (any text: 'a', '"', '\', U+00E9, U+2713) and an
\* optional code challenge; the codeVerifier property is not set yet
CodecRequests ==
    [clientId : SeqsUpTo({97}, MaxStrLen) \ {<<>>},
     state : SeqsUpTo({97, 34, 92, 233, 10003}, MaxStrLen),
     codeChallenge : {UndefText, <<97>>},
     codeVerifier : {UndefText}]

\* base64url texts of generateCodeVerifier
CodecVerifiers == {<<97>>, <<97, 45>>}

\* redirectTo<Provider>: state = btoa(JSON.stringify({...oauthReqInfo,
\* codeVerifier})); an exception leaves the handler
CodecEncode ==
    /\ cur.pc = "start"
    /\ LET enc == btoa(stringify([cur.oauthReqInfo EXCEPT
                                    !.codeVerifier = cur.codeVerifier]))
       IN  cur' = [cur EXCEPT !.pc = IF enc.threw THEN "threw" ELSE "encoded",
                              !.state = enc.out]
    /\ UNCHANGED <<issued, exchanged, jar, nreq>>

\* the callback, given that state back: JSON.parse(atob(state))
CodecDecode ==
    /\ cur.pc = "encoded"
    /\ LET a == atob(cur.state)
           j == parse(a.out)
       IN  cur' = [cur EXCEPT !.pc = IF a.threw \/ j.threw THEN "threw" ELSE "decoded",
                              !.decoded = j.obj]
    /\ UNCHANGED <<issued, exchanged, jar, nreq>>

CodecInit ==
    /\ \E r \in CodecRequests, v \in CodecVerifiers :
          cur = [pc |-> "start", oauthReqInfo |-> r, codeVerifier |-> v,
                 state |-> <<>>, decoded |-> EmptyObject]
    /\ issued = {}
    /\ exchanged = {}
    /\ jar = NoCookie
    /\ nreq = 0

CodecNext == CodecEncode \/ CodecDecode

CodecSpec == CodecInit /\ [][CodecNext]_vars

\* ------------------------------------------------------------------------
\* Login derivation on its own: the normalization step of each callback,
\* applied to the userinfo payloads an upstream can answer with.
\* ------------------------------------------------------------------------
\* an optional text property: absent, or a text over alphabet
OptionalText(alphabet, n) == {UndefStr} \cup SeqsUpTo(alphabet, n)

\* userinfo payloads: every combination of the identity properties each
\* adapter reads, absent or a text (empty, with or without separator), with
\* and without the display-name properties
LoginPayloads(p) ==
    LET ids ==
          CASE p = "google" ->
                 {[NoUser EXCEPT !.email = e] : e \in OptionalText({"a", "@"}, MaxStrLen)}
            [] p = "auth0" ->
                 {[NoUser EXCEPT !.nickname = n, !.email = e, !.sub = u] :
                    n \in OptionalText({"n"}, 1),
                    e \in OptionalText({"a", "@"}, MaxStrLen),
                    u \in OptionalText({"s", "|"}, MaxStrLen)}
            [] p = "keycloak" ->
                 {[NoUser EXCEPT !.preferred_username = n, !.email = e, !.sub = u] :
                    n \in OptionalText({"n"}, 1),
                    e \in OptionalText({"a", "@"}, MaxStrLen),
                    u \in OptionalText({"s", "|"}, MaxStrLen)}
            [] p = "custom" ->
                 {[NoUser EXCEPT !.username = n, !.user_id = u] :
                    n \in OptionalText({"n"}, 1), u \in OptionalText({"i"}, 1)}
        parts == IF p = "keycloak" THEN {UndefStr, <<"G">>} ELSE {UndefStr}
    IN  {[u EXCEPT !.name = m, !.given_name = g, !.family_name = f] :
            u \in ids, m \in {UndefStr, <<"N">>}, g \in parts, f \in parts}

\* the arguments of completeAuthorization that carry the identity: props and
\* userId.  A property that is not written, or whose value is undefined, is
\* UndefStr.
IdentityArgs(p, userData, accessToken, login) ==
    LET unknown == <<"U", "n", "k", "n", "o", "w", "n", " ", "U", "s", "e", "r">>
        \* `${given_name || ''} ${family_name || ''}`.trim()
        fullName ==
            IF FalsyStr(userData.given_name)
            THEN (IF FalsyStr(userData.family_name) THEN <<>> ELSE userData.family_name)
            ELSE IF FalsyStr(userData.family_name) THEN userData.given_name
            ELSE userData.given_name \o <<" ">> \o userData.family_name
        props ==
          CASE p = "google" ->
                 [accessToken |-> accessToken, email |-> userData.email,
                  login |-> login, name |-> userData.name, provider |-> UndefStr]
            [] p = "auth0" ->
                 [accessToken |-> accessToken, email |-> userData.email,
                  login |-> login,
                  name |-> OrElse(userData.name, OrElse(userData.nickname, unknown)),
                  provider |-> UndefStr]
            [] p = "keycloak" ->
                 [accessToken |-> accessToken, email |-> userData.email,
                  login |-> login,
                  name |-> OrElse(userData.name,
                             OrElse(fullName,
                               OrElse(userData.preferred_username, unknown))),
                  provider |-> UndefStr]
            [] p = "custom" ->
                 [accessToken |-> accessToken,
                  email |-> login \o <<"@custom-oauth.local">>,
                  login |-> login,
                  name |-> OrElse(userData.username,
                             OrElse(userData.user_id,
                                    <<"D", "e", "m", "o", " ", "U", "s", "e", "r">>)),
                  provider |-> <<"custom-oauth">>]
    IN  [props |-> props, userId |-> login]

NoIdentity == IdentityArgs("google", NoUser, UndefStr, UndefStr)

\* const login = ...: the derivation throws, or gives the login and the
\* identity handed to completeAuthorization with the access token
Normalize ==
    /\ cur.pc = "payload"
    /\ LET d == DeriveLogin(cur.provider, cur.userData)
       IN  cur' = [cur EXCEPT
                     !.pc = IF d.threw THEN "threw" ELSE "derived",
                     !.login = d.login,
                     !.identity = IF d.threw THEN NoIdentity
                                  ELSE IdentityArgs(cur.provider, cur.userData,
                                                    cur.accessToken, d.login)]
    /\ UNCHANGED <<issued, exchanged, jar, nreq>>

LoginInit ==
    /\ \E p \in Providers :
          \E u \in LoginPayloads(p) :
             cur = [pc |-> "payload", provider |-> p, userData |-> u,
                    accessToken |-> <<"t", "o", "k">>, login |-> UndefStr,
                    identity |-> NoIdentity]
    /\ issued = {}
    /\ exchanged = {}
    /\ jar = NoCookie
    /\ nreq = 0

LoginNext == Normalize

LoginSpec == LoginInit /\ [][LoginNext]_vars

\* ------------------------------------------------------------------------
\* Callbacks in flight together. A Worker interleaves handler invocations at
\* their awaits. Each invocation of a callback handler keeps what it works on
\* in constants and variables of its own call (stateData, oauthReqInfo, code,
\* tokenData, accessToken, userData): cur[i] is the frame of invocation i.
\* The handler modules declare nothing at module level but `app`.
\* ------------------------------------------------------------------------
\* callbacks in flight at once
MaxAttempts == 2

\* faulty variant: the access token is kept in one place for all invocations,
\* the frame of the first
Locals_SharedToken(i) ==
    [cur[i] EXCEPT !.accessToken =
        IF cur[1].accessToken # UndefStr THEN cur[1].accessToken ELSE @]

\* what invocation i reads when it names its variables: its own frame
Locals(i) == cur[i]

\* from the start of the handler to the token request (a state that decodes
\* and a code, the other cases being answered at once)
ConcCallback(i, p, oauthReqInfo) ==
    /\ cur[i].pc = "idle"
    /\ cur' = [cur EXCEPT ![i].pc = "awaitToken", ![i].provider = p,
                           ![i].oauthReqInfo = oauthReqInfo]
    /\ UNCHANGED <<issued, exchanged, jar, nreq>>

\* the token response of invocation i: tokenData.access_token, or none
ConcTokenReturns(i, token) ==
    /\ cur[i].pc = "awaitToken"
    /\ cur' = [cur EXCEPT ![i].tokenResponse = token, ![i].accessToken = token,
                           ![i].pc = IF token = UndefStr THEN "done" ELSE "awaitUser"]
    /\ UNCHANGED <<issued, exchanged, jar, nreq>>

\* the userinfo response of invocation i, the login derivation and the call
\* of completeAuthorization({request: oauthReqInfo, userId: login, props})
ConcUserReturns(i, userData) ==
    /\ cur[i].pc = "awaitUser"
    /\ LET mine == Locals(i)
           d == DeriveLogin(mine.provider, userData)
       IN  cur' = [cur EXCEPT
                ![i].userResponse = userData,
                ![i].pc = "done",
                ![i].handed =
                    IF d.threw THEN @
                    ELSE [request |-> mine.oauthReqInfo,
                          identity |-> IdentityArgs(mine.provider, userData,
                                                    mine.accessToken, d.login)]]
    /\ UNCHANGED <<issued, exchanged, jar, nreq>>

ConcInit ==
    /\ cur = [i \in 1 .. MaxAttempts |->
                [pc |-> "idle", provider |-> "google", oauthReqInfo |-> NoObj,
                 tokenResponse |-> UndefStr, accessToken |-> UndefStr,
                 userResponse |-> NoUser,
                 handed |-> [request |-> NoObj, identity |-> NoIdentity]]]
    /\ issued = {}
    /\ exchanged = {}
    /\ jar = NoCookie
    /\ nreq = 0

ConcNext ==
    \E i \in 1 .. MaxAttempts :
        \/ \E p \in {"google", "custom"}, c \in ClientIds :
              ConcCallback(i, p, [clientId |-> c, scope |-> "read", codeVerifier |-> 0])
        \/ \E token \in {UndefStr, <<"t", "1">>, <<"t", "2">>} :
              ConcTokenReturns(i, token)
        \/ \E userData \in {[NoUser EXCEPT !.email = <<"j", "@", "g">>],
                             [NoUser EXCEPT !.email = <<"k", "@", "g">>,
                                            !.username = <<"u">>]} :
              ConcUserReturns(i, userData)

ConcSpec == ConcInit /\ [][ConcNext]_vars

\* ------------------------------------------------------------------------
\* The sendEmail tool (registerGmailToolsWithSentry). Time is counted in
\* whole minutes; a call is made at a minute not before the call before it.
\* ------------------------------------------------------------------------
\* minutes the calls are spread over, beyond the first
MaxMinute == 1

\* sendEmail calls in one behaviour
MaxCalls == 7

\* GMAIL_RATE_LIMITS.SEND_EMAIL; no module reads it
SEND_EMAIL == 5

\* the allow-list declared in index_sentry.ts; no module reads it
ALLOWED_USERNAMES == {"coleam00"}

\* faulty variant: the total of the recipients is not checked
validateRecipientLimits_NoTotal(to, cc, bcc) ==
    IF to = 0 THEN "At least one 'To' recipient is required"
    ELSE IF to > 25 THEN "Too many 'To' recipients (max 25)"
    ELSE IF cc > 25 THEN "Too many 'CC' recipients (max 25)"
    ELSE IF bcc > 25 THEN "Too many 'BCC' recipients (max 25)"
    ELSE ""

\* validateRecipientLimits on the lengths of to, cc and bcc; an absent cc or
\* bcc is -1 (cc?.length || 0 is then 0); "" is {isValid: true}
validateRecipientLimits(to, cc, bcc) ==
    LET len(n) == IF n = -1 THEN 0 ELSE n
    IN  IF to + len(cc) + len(bcc) > 50 THEN "Too many recipients (max 50 total)"
        ELSE IF to = 0 THEN "At least one 'To' recipient is required"
        ELSE IF to > 25 THEN "Too many 'To' recipients (max 25)"
        ELSE IF cc # -1 /\ cc > 25 THEN "Too many 'CC' recipients (max 25)"
        ELSE IF bcc # -1 /\ bcc > 25 THEN "Too many 'BCC' recipients (max 25)"
        ELSE ""

\* One call of the tool at minute `now` in the session of props.login. The
\* message m gives the lengths of to, cc and bcc, whether every address, the
\* subject and the body pass their validators, and how many phishing
\* indicators detectPhishingIndicators finds. The checks run in the order of
\* the handler; then sendGmailMessage posts the message, and the Gmail API
\* accepts it or answers non-2xx, which throws. Nothing counts the calls and
\* nothing reads props.login but the trace attributes and the reply text.
sendEmail(now, m, accepted) ==
    /\ cur.calls < MaxCalls
    /\ now >= cur.now
    /\ LET error ==
             IF validateRecipientLimits(m.to, m.cc, m.bcc) # ""
             THEN "Recipient validation failed"
             ELSE IF ~m.addressesOk THEN "Email validation failed"
             ELSE IF ~m.subjectOk THEN "Subject validation failed"
             ELSE IF ~m.bodyOk THEN "Body validation failed"
             ELSE IF m.indicators > 2
             THEN "Email appears to contain suspicious content"
             ELSE ""
       IN  cur' = [cur EXCEPT
               !.now = now,
               !.calls = @ + 1,
               !.last = m,
               !.posted = (error = ""),
               !.sent = IF error = "" /\ accepted
                        THEN [@ EXCEPT ![now] = @ + 1] ELSE @,
               !.result = IF error # "" THEN error
                          ELSE IF accepted THEN "Email Sent Successfully"
                          ELSE "Failed to send email"]
    /\ UNCHANGED <<issued, exchanged, jar, nreq>>

\* the messages tried: one that passes every check, recipient lengths at and
\* beyond each limit, each later check failing alone, and each check failing
\* together with the one after it
MailMessages ==
    LET good == [to |-> 1, cc |-> -1, bcc |-> -1, addressesOk |-> TRUE,
                 subjectOk |-> TRUE, bodyOk |-> TRUE, indicators |-> 2]
    IN  {good,
         [good EXCEPT !.to = 0],
         [good EXCEPT !.to = 26],
         [good EXCEPT !.to = 25, !.cc = 25],
         [good EXCEPT !.to = 25, !.cc = 25, !.bcc = 1],
         [good EXCEPT !.cc = 26],
         [good EXCEPT !.bcc = 26],
         [good EXCEPT !.addressesOk = FALSE],
         [good EXCEPT !.subjectOk = FALSE],
         [good EXCEPT !.bodyOk = FALSE],
         [good EXCEPT !.indicators = 3],
         [good EXCEPT !.to = 0, !.addressesOk = FALSE],
         [good EXCEPT !.addressesOk = FALSE, !.subjectOk = FALSE],
         [good EXCEPT !.subjectOk = FALSE, !.bodyOk = FALSE],
         [good EXCEPT !.bodyOk = FALSE, !.indicators = 3]}

\* a session of an authenticated user, on or off the allow-list
MailInit ==
    /\ \E login \in {"coleam00", "someone"} :
          cur = [login |-> login, now |-> 0, calls |-> 0,
                 sent |-> [m \in 0 .. MaxMinute |-> 0],
                 last |-> CHOOSE m \in MailMessages : m.to = 0 /\ m.addressesOk,
                 posted |-> FALSE, result |-> ""]
    /\ issued = {}
    /\ exchanged = {}
    /\ jar = NoCookie
    /\ nreq = 0

MailNext ==
    \E now \in 0 .. MaxMinute, m \in MailMessages, accepted \in BOOLEAN :
        sendEmail(now, m, accepted)

MailSpec == MailInit /\ [][MailNext]_vars

\* ------------------------------------------------------------------------
\* The webSearch and newsSearch tools (registerBraveSearchToolsWithSentry):
\* which Brave Search API key a search is performed with. A header or
\* binding is absent (UndefStr) or a text, here of blanks and key characters.
\* ------------------------------------------------------------------------
\* the header names getBraveSearchApiKey tries, in its order
BraveHeaderNames == <<"x-brave-search-api-key", "x-brave-api-key",
                      "brave-search-api-key", "brave-api-key">>

\* the headers the tools see of the request being served: the function is a
\* placeholder that returns {} whatever the request carries
getCurrentRequestHeaders(request) ==
    [n \in {BraveHeaderNames[k] : k \in 1 .. Len(BraveHeaderNames)} |-> UndefStr]

\* first header of the list with a non-blank value, else the
\* BRAVE_SEARCH_API_KEY binding if non-blank, else no key
getBraveSearchApiKey(env, requestHeaders) ==
    LET RECURSIVE trimStart(_), trimEnd(_)
        trimStart(t) == IF t # <<>> /\ Head(t) = " " THEN trimStart(Tail(t)) ELSE t
        trimEnd(t) == IF t # <<>> /\ t[Len(t)] = " "
                      THEN trimEnd(SubSeq(t, 1, Len(t) - 1)) ELSE t
        trim(t) == trimEnd(trimStart(t))
        usable(v) == ~FalsyStr(v) /\ Len(trim(v)) > 0
        found == {k \in 1 .. Len(BraveHeaderNames) :
                     usable(requestHeaders[BraveHeaderNames[k]])}
        first == CHOOSE k \in found : \A j \in found : k <= j
    IN  IF found # {}
        THEN [apiKey |-> trim(requestHeaders[BraveHeaderNames[first]]),
              source |-> BraveHeaderNames[first]]
        ELSE IF usable(env)
        THEN [apiKey |-> trim(env), source |-> "environment"]
        ELSE [apiKey |-> UndefStr, source |-> "none"]

\* the handler of either tool: the query and parameter validations answer
\* with an error or pass; then the key is looked up and searchBrave called
BraveSearch ==
    /\ cur.pc = "start"
    /\ LET k == getBraveSearchApiKey(cur.env, getCurrentRequestHeaders(cur.request))
       IN  cur' = IF ~cur.valid
                  THEN [cur EXCEPT !.pc = "done", !.result = "validation failed"]
                  ELSE IF k.apiKey = UndefStr
                  THEN [cur EXCEPT !.pc = "done", !.source = k.source,
                                   !.result = "Brave Search API key not provided"]
                  ELSE [cur EXCEPT !.pc = "done", !.source = k.source,
                                   !.searchedWith = k.apiKey,
                                   !.result = "Search Results"]
    /\ UNCHANGED <<issued, exchanged, jar, nreq>>

BraveInit ==
    /\ \E tool \in {"webSearch", "newsSearch"}, valid \in BOOLEAN :
          \E env \in {UndefStr, <<" ">>, <<"e">>} :
             \E request \in [{BraveHeaderNames[k] : k \in 1 .. Len(BraveHeaderNames)} ->
                                {UndefStr, <<" ">>, <<" ", "h", " ">>}] :
                cur = [pc |-> "start", tool |-> tool, valid |-> valid, env |-> env,
                       request |-> request, source |-> "", searchedWith |-> UndefStr,
                       result |-> ""]
    /\ issued = {}
    /\ exchanged = {}
    /\ jar = NoCookie
    /\ nreq = 0

BraveNext == BraveSearch

BraveSpec == BraveInit /\ [][BraveNext]_vars

(***************************************************************************)
(* The redirect_uri and the body of the token request.  One behaviour is   *)
(* one authorization: the POST /<provider>/authorize that redirects to the *)
(* upstream, then the GET /<provider>/callback that sends the token        *)
(* request.  Each of the two requests reaches the gateway on its own URL.  *)
(***************************************************************************)

\* String(undefined), the text URLSearchParams writes for an undefined value
UndefinedText == <<"u", "n", "d", "e", "f", "i", "n", "e", "d">>

\* scheme and authority on which a request reaches the gateway
Origins == {"https://gw.example", "https://alt.example", "http://gw.example"}

\* request.url / c.req.url of a request to path
RequestUrls(path) ==
    {[origin |-> o, path |-> path, query |-> q] :
        o \in Origins, q \in {"", "?code=c&state=s"}}

\* new URL(path, base).href for a path that begins with "/": the scheme and
\* authority are those of base, the path replaces that of base and the
\* query of base is dropped
NewURL(path, base) == [origin |-> base.origin, path |-> path, query |-> ""]

\* the bindings the token request of each handler reads
ClientIdVar(p) == CASE p = "google"   -> "GOOGLE_CLIENT_ID"
                    [] p = "auth0"    -> "AUTH0_CLIENT_ID"
                    [] p = "keycloak" -> "KEYCLOAK_CLIENT_ID"
                    [] p = "custom"   -> "CUSTOM_OAUTH_CLIENT_ID"

ClientSecretVar(p) == CASE p = "google"   -> "GOOGLE_CLIENT_SECRET"
                        [] p = "auth0"    -> "AUTH0_CLIENT_SECRET"
                        [] p = "keycloak" -> "KEYCLOAK_CLIENT_SECRET"
                        [] p = "custom"   -> "CUSTOM_OAUTH_CLIENT_SECRET"

\* faulty variant: the redirect_uri is built on one fixed origin instead of
\* the origin the callback came in on
tokenRequestData_FixedOrigin(p, env, url, code, codeVerifier) ==
    [keys |-> {"grant_type", "client_id", "client_secret", "code",
               "redirect_uri", "code_verifier"},
     client_id |-> env[ClientIdVar(p)],
     client_secret |-> env[ClientSecretVar(p)],
     code |-> code,
     redirect_uri |-> [origin |-> "https://gw.example", path |-> CallbackPath(p),
                       query |-> ""],
     code_verifier |-> codeVerifier]

\* the tokenRequestData object of each callback: keys are the properties
\* the object has; a property not in keys is never read
tokenRequestData(p, env, url, code, codeVerifier) ==
    LET redirect_uri == NewURL(CallbackPath(p), url)
        clientSecret == env[ClientSecretVar(p)]
        common == {"grant_type", "client_id", "code", "redirect_uri", "code_verifier"}
        data(keys, client_id, client_secret) ==
            [keys |-> keys, client_id |-> client_id, client_secret |-> client_secret,
             code |-> code, redirect_uri |-> redirect_uri,
             code_verifier |-> codeVerifier]
    IN  CASE p \in {"google", "auth0"} ->
               data(common \cup {"client_secret"}, env[ClientIdVar(p)], clientSecret)
          [] p = "keycloak" ->
               \* if (clientSecret) tokenRequestData.client_secret = clientSecret
               IF clientSecret \notin {UndefStr, <<>>}
               THEN data(common \cup {"client_secret"}, env[ClientIdVar(p)], clientSecret)
               ELSE data(common, env[ClientIdVar(p)], UndefStr)
          [] p = "custom" ->
               \* CUSTOM_OAUTH_CLIENT_ID || 'demo-client'
               data(common,
                    IF env[ClientIdVar(p)] \in {UndefStr, <<>>}
                    THEN <<"d", "e", "m", "o", "-", "c", "l", "i", "e", "n", "t">>
                    ELSE env[ClientIdVar(p)],
                    UndefStr)

\* new URLSearchParams(tokenRequestData): one pair per property of the
\* object, each value converted with String()
URLSearchParams(data) ==
    LET text(v) == IF v = UndefStr THEN UndefinedText ELSE v
    IN  [data EXCEPT !.client_id = text(@),
                     !.client_secret = IF "client_secret" \in data.keys
                                       THEN text(@) ELSE @]

\* POST /<provider>/authorize with an approved form: the upstream redirect
TokenReqAuthorize ==
    /\ cur.pc = "start"
    /\ \E r \in AuthRequests :
          LET resp == redirectToProvider(cur.provider, r, RedirectEnvVars(cur.provider),
                                         NoCookie, 1)
          IN  cur' = [cur EXCEPT
                  !.pc = "redirected",
                  !.authorizeUri = NewURL(resp.location.redirect_uri, cur.authorizeUrl)]
    /\ UNCHANGED <<issued, exchanged, jar, nreq>>

\* GET /<provider>/callback with a code and a state: the token request
TokenReqCallback ==
    /\ cur.pc = "redirected"
    /\ cur' = [cur EXCEPT
           !.pc = "sent",
           !.body = URLSearchParams(
                        tokenRequestData(cur.provider, cur.env, cur.callbackUrl,
                                         <<"c">>, 1))]
    /\ UNCHANGED <<issued, exchanged, jar, nreq>>

TokenReqInit ==
    /\ \E p \in Providers :
          \E env \in [{ClientIdVar(p), ClientSecretVar(p)} ->
                         {UndefStr, <<>>, <<"v">>}] :
             \E a \in RequestUrls("/authorize"), b \in RequestUrls("/callback") :
                cur = [pc |-> "start", provider |-> p, env |-> env,
                       authorizeUrl |-> a, callbackUrl |-> b,
                       authorizeUri |-> NewURL("", a),
                       body |-> [keys |-> {}, client_id |-> UndefStr,
                                 client_secret |-> UndefStr, code |-> <<>>,
                                 redirect_uri |-> NewURL("", b),
                                 code_verifier |-> 0]]
    /\ issued = {}
    /\ exchanged = {}
    /\ jar = NoCookie
    /\ nreq = 0

TokenReqNext == TokenReqAuthorize \/ TokenReqCallback

TokenReqSpec == TokenReqInit /\ [][TokenReqNext]_vars

\* ------------------------------------------------------------------------
\* Properties
\* ------------------------------------------------------------------------
\* positions in the current request's outbound calls that go to `to`
CallsTo(to) == {k \in 1 .. Len(cur.calls) : cur.calls[k].to = to}

IsCallback == cur.route = "GET /callback"

\* the state parameter decodes to an object (not null)
Decodes(st) == ~DecodeState(st).threw /\ ~DecodeState(st).isNull

\* C1: within one callback request completeAuthorization is invoked at most
\* once, and only after the token exchange returned 2xx with an access_token
\* and the userinfo fetch returned 2xx (token call, then userinfo call, then
\* completeAuthorization); on every other path, and in every other handler,
\* it is not invoked.
C1_CompleteOnceAfterSuccess ==
    /\ Cardinality(CallsTo("complete")) <= 1
    /\ \A k \in CallsTo("complete") :
          /\ IsCallback
          /\ cur.tokenOutcome = "token"
          /\ cur.userOutcome = "payload"
          /\ \E i \in CallsTo("token"), j \in CallsTo("userinfo") : i < j /\ j < k

C1_Witness ==
    /\ IsCallback /\ cur.pc = "done"
    /\ CallsTo("complete") # {}
    /\ cur.response.location.to = "client"

\* C2: if the token endpoint answers the code exchange with a non-2xx
\* status, the userinfo endpoint is never called during that callback.
C2_NoUserinfoAfterTokenFailure ==
    (IsCallback /\ cur.tokenOutcome = "non2xx") =>
        /\ CallsTo("userinfo") = {}
        /\ cur.pc = "done"

C2_Witness ==
    /\ IsCallback /\ cur.tokenOutcome = "non2xx" /\ cur.pc = "done"
    /\ CallsTo("token") # {}

\* C3: a callback whose state decodes to a request with a client id but
\* which has no code is answered with a 400-class failure, and makes no
\* token-endpoint or userinfo call.
C3_NoCodeNoUpstreamCall ==
    (/\ IsCallback
     /\ Decodes(cur.state)
     /\ ~Falsy(DecodeState(cur.state).obj.clientId)
     /\ cur.code = Undef) =>
        /\ cur.pc = "done"
        /\ cur.response.status \in 400 .. 499
        /\ cur.calls = <<>>

C3_Witness ==
    /\ IsCallback
    /\ Decodes(cur.state)
    /\ DecodeState(cur.state).obj.clientId \in ClientIds
    /\ cur.code = Undef
    /\ cur.response.status = 400

\* C4: a callback whose decoded state lacks a non-empty client identifier
\* aborts: an error response, no token-endpoint call, no userinfo call and no
\* completeAuthorization.
C4_UntrustedStateAborts ==
    (/\ IsCallback
     /\ ~DecodeState(cur.state).threw
     /\ (DecodeState(cur.state).isNull
           \/ DecodeState(cur.state).obj.clientId \notin ClientIds)) =>
        /\ cur.pc = "done"
        /\ cur.response.status \in 400 .. 599
        /\ cur.response.location.to = "none"
        /\ cur.calls = <<>>

C4_Witness ==
    /\ IsCallback
    /\ Decodes(cur.state)
    /\ DecodeState(cur.state).obj.clientId = ""
    /\ cur.code = "code1"
    /\ cur.response.status = 400

\* C5: a callback whose state parameter is missing or cannot be decoded (not
\* base64, or not JSON) is answered with a 400-class failure carrying plain
\* diagnostic text, with no redirect and no upstream call.
C5_UndecodableStateIs400 ==
    (IsCallback /\ DecodeState(cur.state).threw) =>
        /\ cur.pc = "done"
        /\ cur.response.status \in 400 .. 499
        /\ cur.response.location.to = "none"
        /\ cur.calls = <<>>

IsUpstreamRedirect == cur.response.location.to = "upstream"

\* what the receiver of an upstream authorize URL can read out of it with
\* the public decoders: the verifier inside the state parameter, if atob and
\* JSON.parse open it.  A SHA-256 digest cannot be inverted.
RecoverableVerifiers(url) ==
    IF Decodes(url.state)
    THEN {DecodeState(url.state).obj.codeVerifier} \cap Verifiers
    ELSE {}

\* C6: in every upstream authorize redirect the PKCE verifier is not
\* transmitted to the upstream authorize endpoint: nothing in the URL (the
\* state parameter included) lets the verifier behind the code_challenge be
\* recovered.
C6_VerifierNotInAuthorizeUrl ==
    IsUpstreamRedirect =>
        \A v \in Verifiers :
            generateCodeChallenge(v) = cur.response.location.code_challenge
                => v \notin RecoverableVerifiers(cur.response.location)

\* C7: when a callback's state is one an authorize redirect issued, the
\* code_verifier of its token exchange derives the code_challenge that
\* redirect sent.
C7_VerifierMatchesChallenge ==
    \A k \in CallsTo("token") :
        \A i \in issued :
            i.state = cur.state =>
                generateCodeChallenge(cur.calls[k].code_verifier) = i.code_challenge

C7_Witness ==
    /\ IsCallback
    /\ CallsTo("token") # {}
    /\ \E i \in issued : i.state = cur.state

\* C8 (as claimed): over any sequence of callbacks a verifier generated by an
\* authorize redirect is submitted in at most one token exchange.
C8_VerifierExchangedOnce ==
    \A k \in CallsTo("token") :
        cur.calls[k].code_verifier \in Generated => ~cur.calls[k].replay

\* C8 (amended): within one callback request the verifier decoded from the
\* state is submitted in at most one token exchange; a repeated callback is a
\* new request and submits it again.
C8_OneExchangePerCallback ==
    /\ Cardinality(CallsTo("token")) <= 1
    /\ \A k \in CallsTo("token") :
          /\ IsCallback
          /\ cur.calls[k].code_verifier = DecodeState(cur.state).obj.codeVerifier

C8_Witness ==
    /\ IsCallback
    /\ \E k \in CallsTo("token") :
          /\ cur.calls[k].replay
          /\ cur.calls[k].code_verifier \in Generated
          /\ \E i \in issued : i.state = cur.state

\* C9: an upstream authorize redirect is issued only by a GET /authorize
\* whose approval cookie is the server's own for the request's client id, or
\* by a POST /authorize whose approval form verified; a GET with a client id
\* and no such cookie renders the dialog and issues no redirect.
C9_RedirectOnlyWhenApproved ==
    /\ IsUpstreamRedirect =>
          \/ /\ cur.route = "GET /authorize"
             /\ cur.oauthReqInfo.clientId \in ClientIds
             /\ cur.cookie = recordApproval(cur.oauthReqInfo.clientId,
                                            COOKIE_ENCRYPTION_KEY)
          \/ /\ cur.route = "POST /authorize"
             /\ cur.formValid
    /\ (/\ cur.route = "GET /authorize"
        /\ cur.oauthReqInfo.clientId \in ClientIds
        /\ cur.cookie # recordApproval(cur.oauthReqInfo.clientId,
                                       COOKIE_ENCRYPTION_KEY)) =>
          /\ cur.response = DialogResponse
          /\ ~IsUpstreamRedirect

C9_Witness ==
    /\ cur.route = "GET /authorize"
    /\ IsUpstreamRedirect
    /\ cur.cookie = jar

\* C10: an approval cookie minted for client id A under the server key
\* approves A and no other client id: a GET /authorize that carries it for a
\* different client id gets the dialog, never the redirect, and for A it
\* skips the dialog.
C10_CookieIsolation ==
    /\ \A a \in ClientIds, b \in ClientIds :
          clientIdAlreadyApproved(recordApproval(a, COOKIE_ENCRYPTION_KEY), b,
                                  COOKIE_ENCRYPTION_KEY) <=> (a = b)
    /\ \A a \in ClientIds :
          (/\ cur.route = "GET /authorize"
           /\ cur.cookie = recordApproval(a, COOKIE_ENCRYPTION_KEY)
           /\ cur.oauthReqInfo.clientId \in ClientIds) =>
              IF cur.oauthReqInfo.clientId = a
              THEN cur.response # DialogResponse
              ELSE cur.response = DialogResponse /\ ~IsUpstreamRedirect
    /\ (cur.route = "POST /authorize" /\ IsUpstreamRedirect) =>
          cur.response.setCookie = recordApproval(cur.oauthReqInfo.clientId,
                                                  COOKIE_ENCRYPTION_KEY)

C10_Witness ==
    /\ cur.route = "GET /authorize"
    /\ jar.form = "ok"
    /\ cur.cookie = jar
    /\ cur.oauthReqInfo.clientId \in ClientIds \ {jar.clientId}
    /\ cur.response = DialogResponse

\* C11: a GET /<provider>/authorize that names a client and whose approval
\* cookie is absent, malformed or carries a signature that does not verify
\* (another key, or another client id than the one signed) is not approved:
\* the response is the approval dialog, not an error and not a redirect.
C11_BadCookieGetsDialog ==
    (/\ cur.route = "GET /authorize"
     /\ cur.oauthReqInfo.clientId \in ClientIds
     /\ \/ cur.cookie.form \in {"absent", "malformed"}
        \/ cur.cookie.sig.key # COOKIE_ENCRYPTION_KEY
        \/ cur.cookie.sig.msg # cur.cookie.clientId) =>
        /\ ~clientIdAlreadyApproved(cur.cookie, cur.oauthReqInfo.clientId,
                                    COOKIE_ENCRYPTION_KEY)
        /\ cur.pc = "done"
        /\ cur.response = DialogResponse
        /\ cur.response.status = 200
        /\ cur.response.location.to = "none"

C11_Witness ==
    /\ cur.route = "GET /authorize"
    /\ cur.oauthReqInfo.clientId \in ClientIds
    /\ cur.cookie = recordApproval(cur.oauthReqInfo.clientId, "attacker")
    /\ cur.response = DialogResponse

\* the providers that pass the router's configuration check
ConfiguredSet(env) ==
    {RouterProviders[i] : i \in {j \in 1 .. Len(RouterProviders) :
                                   ProviderConfigured(RouterProviders[j], env)}}

\* the query string of a request URL: all that follows its first "?"
OriginalQuery(url) ==
    IF IndexOf(url, "?") = 0 THEN <<>>
    ELSE SubSeq(url, IndexOf(url, "?") + 1, Len(url))

IsRootAuthorize == cur.pc = "done" /\ cur.handler = "root authorize"

\* C12: with exactly one provider configured, GET /authorize answers, for
\* every request URL, with a redirect to /<that provider>/authorize followed
\* by the request's query string, verbatim.
C12_SingleProviderRedirect ==
    (IsRootAuthorize /\ Cardinality(ConfiguredSet(cur.env)) = 1) =>
        \E p \in ConfiguredSet(cur.env) :
            /\ cur.response.kind = "redirect"
            /\ cur.response.status = 302
            /\ cur.response.location =
                  <<ProviderPath(p), "/authorize">>
                     \o (IF OriginalQuery(cur.url) = <<>> THEN <<>>
                         ELSE <<"?">> \o OriginalQuery(cur.url))

\* C13: with two or more providers configured, GET /authorize answers with
\* an HTML page, not a redirect, that has exactly one link per configured
\* provider and none for any other, each link being /<provider>/authorize
\* with the request's query string, verbatim.
C13_SelectionPage ==
    (IsRootAuthorize /\ Cardinality(ConfiguredSet(cur.env)) >= 2) =>
        /\ cur.response.kind = "html"
        /\ cur.response.status = 200
        /\ cur.response.location = <<>>
        /\ Len(cur.response.links) = Cardinality(ConfiguredSet(cur.env))
        /\ \A p \in ConfiguredSet(cur.env) :
              \E i \in 1 .. Len(cur.response.links) :
                  cur.response.links[i] =
                      <<ProviderPath(p), "/authorize", "?">> \o OriginalQuery(cur.url)

\* C14: with no provider configured, GET /authorize answers with a 500-class
\* status and a diagnostic text, and neither a redirect nor a selection page.
C14_NoProviderIs500 ==
    (IsRootAuthorize /\ ConfiguredSet(cur.env) = {}) =>
        /\ cur.response.status \in 500 .. 599
        /\ cur.response.kind = "text"
        /\ cur.response.body # ""
        /\ cur.response.location = <<>>
        /\ cur.response.links = <<>>

C14_Witness ==
    /\ IsRootAuthorize
    /\ cur.env = {"AUTH0_DOMAIN", "KEYCLOAK_CLIENT_ID"}
    /\ cur.response.status = 500

\* the request's query string has a client_id parameter: an "&"-separated
\* part of it starts with the client_id text
HasClientId(url) ==
    LET q == OriginalQuery(url)
    IN  \E i \in 1 .. Len(q) : q[i] = "client_id=x" /\ (i = 1 \/ q[i - 1] = "&")

\* C15: a GET /authorize at the root entry point that carries no client
\* identifier ends in a 400-class failure and is not answered with a
\* redirect (the provider-specific entry points are AuthorizeGet).
C15_RootNoClientIdIs400 ==
    (IsRootAuthorize /\ ~HasClientId(cur.url)) =>
        /\ cur.response.status \in 400 .. 499
        /\ cur.response.kind # "redirect"

\* C16: the router has one callback route per provider and no shared
\* /callback route: a request is never dispatched to a provider's callback
\* by a handler that inspects its query parameters.
C16_NoSharedCallback ==
    cur.pc = "done" =>
        /\ cur.handler # "root callback"
        /\ (SplitFirst(cur.url, "?") = <<"/callback">> => cur.response = NotFoundResponse)

\* C17: for every authorization request req and verifier v, the state that
\* redirectTo<Provider> encodes from (req, v) is decoded by the callback to
\* req's properties and v: the encoding succeeds, and what is decoded is
\* equal to what was encoded.
C17_StateRoundTrip ==
    /\ cur.pc # "threw"
    /\ cur.pc = "decoded" =>
          cur.decoded = [cur.oauthReqInfo EXCEPT !.codeVerifier = cur.codeVerifier]

\* what does hold: the round trip for requests whose texts btoa accepts
C17_Latin1RoundTrip ==
    (\A i \in 1 .. Len(cur.oauthReqInfo.state) : cur.oauthReqInfo.state[i] <= 255) =>
        C17_StateRoundTrip

\* a text property is present: it is there and not empty
Present(x) == x # UndefStr /\ x # <<>>

\* the local part of an email: its text before the first "@", all of it if
\* it has none
LocalPart(email) ==
    LET k == CHOOSE n \in 0 .. Len(email) :
                /\ \A i \in 1 .. n : email[i] # "@"
                /\ n = Len(email) \/ email[n + 1] = "@"
    IN  SubSeq(email, 1, k)

HasLocalPart(email) == Present(email) /\ LocalPart(email) # <<>>

\* the portion of sub after its "|" separator, for a sub with one separator
AfterSeparator(sub) ==
    LET k == CHOOSE n \in 1 .. Len(sub) : sub[n] = "|"
    IN  SubSeq(sub, k + 1, Len(sub))

OneSeparator(sub) ==
    Present(sub) /\ Cardinality({n \in 1 .. Len(sub) : sub[n] = "|"}) = 1

Normalized(p) == cur.provider = p /\ cur.pc # "payload"

\* C18: for every Auth0 userinfo payload, over every combination of present
\* and absent nickname, email and sub, a login is derived: nickname if
\* present, else the local part of email, else the portion of sub after its
\* "|", else "unknown".
C18_Auth0Login ==
    Normalized("auth0") =>
        /\ cur.pc = "derived"
        /\ LET u == cur.userData
           IN  IF Present(u.nickname) THEN cur.login = u.nickname
               ELSE IF HasLocalPart(u.email) THEN cur.login = LocalPart(u.email)
               ELSE IF OneSeparator(u.sub) /\ AfterSeparator(u.sub) # <<>>
                 THEN cur.login = AfterSeparator(u.sub)
               ELSE IF ~Present(u.sub) \/ \A n \in 1 .. Len(u.sub) : u.sub[n] # "|"
                 THEN cur.login = <<"u", "n", "k", "n", "o", "w", "n">>
               ELSE TRUE

\* C19: for every Google userinfo payload with an email, the login is the
\* local part of the email, the text before the "@"; no login is derived
\* from anything else.
C19_GoogleLogin ==
    Normalized("google") =>
        /\ cur.userData.email # UndefStr =>
              /\ cur.pc = "derived"
              /\ cur.login = LocalPart(cur.userData.email)
        /\ cur.pc = "derived" => cur.userData.email # UndefStr

C19_Witness ==
    /\ Normalized("google")
    /\ cur.userData.email = <<"a", "@", "a">>
    /\ cur.login = <<"a">>

\* C20: for every Keycloak userinfo payload the login is preferred_username
\* if present, else the local part of email, else sub, else "unknown".
C20_KeycloakLogin ==
    Normalized("keycloak") =>
        /\ cur.pc = "derived"
        /\ LET u == cur.userData
           IN  cur.login =
                 IF Present(u.preferred_username) THEN u.preferred_username
                 ELSE IF HasLocalPart(u.email) THEN LocalPart(u.email)
                 ELSE IF Present(u.sub) THEN u.sub
                 ELSE <<"u", "n", "k", "n", "o", "w", "n">>

C20_Witness ==
    /\ Normalized("keycloak")
    /\ cur.userData.preferred_username = UndefStr
    /\ cur.userData.email = UndefStr
    /\ cur.userData.sub = <<"s">>
    /\ cur.login = <<"s">>

\* C21: for every userinfo payload of the custom OAuth adapter the login is
\* username if present, else user_id, else "demo_user".
C21_CustomLogin ==
    Normalized("custom") =>
        /\ cur.pc = "derived"
        /\ LET u == cur.userData
           IN  cur.login =
                 IF Present(u.username) THEN u.username
                 ELSE IF Present(u.user_id) THEN u.user_id
                 ELSE <<"d", "e", "m", "o", "_", "u", "s", "e", "r">>

C21_Witness ==
    /\ Normalized("custom")
    /\ cur.userData = NoUser
    /\ cur.login = <<"d", "e", "m", "o", "_", "u", "s", "e", "r">>

\* the adapter's name, as the provider property gives it
AdapterNames(p) ==
    CASE p = "google"   -> {<<"google">>}
      [] p = "auth0"    -> {<<"auth0">>}
      [] p = "keycloak" -> {<<"keycloak">>}
      [] p = "custom"   -> {<<"custom">>, <<"custom-oauth">>}

\* C22: every identity record handed to completeAuthorization has login,
\* name, email, accessToken and provider all present, and provider names the
\* adapter that produced it.
C22_IdentityComplete ==
    cur.pc = "derived" =>
        /\ cur.identity.props.login # UndefStr
        /\ cur.identity.props.name # UndefStr
        /\ cur.identity.props.email # UndefStr
        /\ cur.identity.props.accessToken # UndefStr
        /\ cur.identity.props.provider \in AdapterNames(cur.provider)

\* C23: every failure is terminal and nothing is retried: one callback
\* request calls the token endpoint at most once and the userinfo endpoint at
\* most once, and after an outbound call that failed (threw, non-2xx,
\* unreadable body, no access_token) the handler has answered and made no
\* further call.
C23_FailureIsTerminal ==
    /\ Cardinality(CallsTo("token")) <= 1
    /\ Cardinality(CallsTo("userinfo")) <= 1
    /\ cur.tokenOutcome \notin {"none", "token"} =>
          /\ cur.pc = "done"
          /\ cur.response.status \in 400 .. 599
          /\ Len(cur.calls) = 1
    /\ cur.userOutcome \notin {"none", "payload"} =>
          /\ cur.pc = "done"
          /\ cur.response.status \in 400 .. 599
          /\ Len(cur.calls) = 2
          /\ CallsTo("complete") = {}

C23_Witness ==
    /\ IsCallback
    /\ cur.tokenOutcome = "token"
    /\ cur.userOutcome = "non2xx"
    /\ cur.pc = "done"
    /\ Len(cur.calls) = 2

\* C24: every callback request eventually gets a response; a token or
\* userinfo request that the upstream never answers is given up after a
\* bounded wait and the callback then answers with the connectivity failure.
C24_CallbackAnswers ==
    (cur.pc \in {"awaitToken", "awaitUser", "awaitComplete"}) ~> (cur.pc = "done")

\* C25: the response to a callback whose outbound call failed carries no
\* upstream error content: had the upstream sent any other error body, or
\* failed with any other message, the caller would have got the same response.
C25_NoUpstreamContent ==
    (IsCallback /\ cur.pc = "done") =>
        /\ cur.tokenOutcome \notin {"none", "token"} =>
              \A t \in UpstreamTexts(cur.tokenOutcome) :
                  OnToken(cur.provider, cur.tokenOutcome, t).response = cur.response
        /\ cur.userOutcome \notin {"none", "payload"} =>
              \A t \in UpstreamTexts(cur.userOutcome) :
                  OnUser(cur.provider, cur.userOutcome, t).response = cur.response

\* the failure category a response text tells the caller
Category(r) ==
    CASE r.body \in {"Network error during authentication. Please try again.",
                     "Network error while fetching user information. Please try again.",
                     "Network connectivity issue."} -> "connectivity"
      [] r.body \in {"Failed to fetch access token: ${status}",
                     "Failed to fetch access token: ${status} ${statusText}",
                     "Failed to fetch user info: ${status}",
                     "Failed to fetch user info: ${status} ${statusText}"} -> "non2xx"
      [] r.body \in {"Missing access token", "Missing access token in response"} ->
            "malformed"
      [] OTHER -> "unclassified"

\* C26: a failed outbound call is answered with exactly one of the three
\* categories (connectivity, non-2xx, malformed payload), and the same
\* failure at the same step gets the same category and the same HTTP status
\* from every adapter.
C26_SameClassification ==
    (IsCallback /\ cur.pc = "done") =>
        /\ cur.tokenOutcome \notin {"none", "token"} =>
              /\ Category(cur.response) # "unclassified"
              /\ \A q \in Providers :
                    LET r == OnToken(q, cur.tokenOutcome, cur.upstreamText).response
                    IN  /\ Category(r) = Category(cur.response)
                        /\ r.status = cur.response.status
        /\ cur.userOutcome \notin {"none", "payload"} =>
              /\ Category(cur.response) # "unclassified"
              /\ \A q \in Providers :
                    LET r == OnUser(q, cur.userOutcome, cur.upstreamText).response
                    IN  /\ Category(r) = Category(cur.response)
                        /\ r.status = cur.response.status

C28_OwnInputsOnly ==
    \A i \in 1 .. MaxAttempts :
        LET f == cur[i]
            d == DeriveLogin(f.provider, f.userResponse)
        IN  IF f.pc = "done" /\ f.tokenResponse # UndefStr /\ ~d.threw
            THEN f.handed =
                   [request |-> f.oauthReqInfo,
                    identity |-> IdentityArgs(f.provider, f.userResponse,
                                              f.tokenResponse, d.login)]
            ELSE f.handed = [request |-> NoObj, identity |-> NoIdentity]

\* the second invocation got its token and finished while the first, of the
\* other provider and with another token, was waiting for its userinfo
C28_Witness ==
    /\ cur[1].pc = "awaitUser"
    /\ cur[2].pc = "done"
    /\ cur[1].provider # cur[2].provider
    /\ cur[1].accessToken = <<"t", "1">>
    /\ cur[2].handed.identity.props.accessToken = <<"t", "2">>

\* C29: sendEmail is rate limited to 5 emails per minute: within one minute
\* no more than 5 messages are sent through the Gmail API, and a call beyond
\* the limit sends nothing.
C29_SendEmailRateLimited ==
    \A m \in 0 .. MaxMinute : cur.sent[m] <= SEND_EMAIL

\* C30: a webSearch or newsSearch whose request carries an
\* X-Brave-Search-API-Key header is performed with that key, and the
\* BRAVE_SEARCH_API_KEY binding is used only when the request carries none.
C30_HeaderKeyFirst ==
    LET header == cur.request["x-brave-search-api-key"]
    IN  (cur.pc = "done" /\ cur.valid) =>
            /\ header = <<" ", "h", " ">> => cur.searchedWith = <<"h">>
            /\ cur.source = "environment" => header \in {UndefStr, <<" ">>}

\* C31: sendEmail sends only for a caller whose login is in
\* ALLOWED_USERNAMES; for any other authenticated caller nothing is sent.
C31_SendEmailAllowListed ==
    cur.login \notin ALLOWED_USERNAMES =>
        /\ ~cur.posted
        /\ \A m \in 0 .. MaxMinute : cur.sent[m] = 0

\* C37: sendEmail calls the Gmail send API only after the recipient-limit
\* check (1 to 25 To, at most 25 CC, at most 25 BCC, at most 50 in total), the
\* address check, the subject check, the body check and the phishing check
\* (at most 2 indicators) have passed, in that order; the first check that
\* fails gives the error response and the API is not called.
C37_ChecksBeforeSend ==
    cur.calls > 0 =>
        LET m == cur.last
            cc == IF m.cc = -1 THEN 0 ELSE m.cc
            bcc == IF m.bcc = -1 THEN 0 ELSE m.bcc
            recipientsOk == /\ m.to \in 1 .. 25
                            /\ cc <= 25
                            /\ bcc <= 25
                            /\ m.to + cc + bcc <= 50
            firstFailure ==
                IF ~recipientsOk THEN "Recipient validation failed"
                ELSE IF ~m.addressesOk THEN "Email validation failed"
                ELSE IF ~m.subjectOk THEN "Subject validation failed"
                ELSE IF ~m.bodyOk THEN "Body validation failed"
                ELSE IF m.indicators > 2
                THEN "Email appears to contain suspicious content"
                ELSE "none"
        IN  IF firstFailure = "none"
            THEN /\ cur.posted
                 /\ cur.result \in {"Email Sent Successfully", "Failed to send email"}
            ELSE /\ ~cur.posted
                 /\ cur.result = firstFailure

\* a message at the limits (25 To, 25 CC, 50 in total) passed every check and
\* was sent
C37_Witness ==
    /\ cur.posted
    /\ cur.last.to = 25
    /\ cur.last.cc = 25
    /\ cur.result = "Email Sent Successfully"
    /\ cur.sent[cur.now] > 0

\* C32: a provider the router lists as configured has all the configuration
\* its own /authorize handler requires: its upstream redirect does not fail
\* for missing configuration, and Keycloak is listed only when both its
\* domain and its realm are set.
C32_ListedIsConfigured ==
    IsRootAuthorize =>
        /\ \A p \in ConfiguredSet(cur.env) \ {"github"} :
              \A r \in AuthRequests :
                  redirectToProvider(p, r, cur.env, NoCookie, 1).status = 302
        /\ "keycloak" \in ConfiguredSet(cur.env) =>
              {"KEYCLOAK_DOMAIN", "KEYCLOAK_REALM"} \subseteq cur.env

\* C33: for every 2xx userinfo payload each adapter's normalization gives a
\* non-empty login and the callback goes on to completeAuthorization;
\* normalization never throws, whichever identity fields the payload lacks.
C33_NormalizationTotal ==
    cur.pc # "payload" =>
        /\ cur.pc = "derived"
        /\ cur.login \notin {UndefStr, <<>>}
        /\ cur.identity.userId = cur.login

\* C34: a POST /<provider>/authorize whose form verifies, whose state has an
\* oauthReqInfo and whose provider is configured answers 302 with both the
\* approval-cookie headers parseRedirectApproval returned and the upstream
\* authorize location; one whose state has no oauthReqInfo answers 400, sets
\* no cookie and issues no redirect.
C34_PostAuthorizeRedirect ==
    (cur.route = "POST /authorize" /\ cur.pc = "done" /\ cur.formValid) =>
        IF cur.oauthReqInfo = NoReqInfo
        THEN /\ cur.response = TextResponse("Invalid request", 400)
             /\ cur.response.setCookie = NoCookie
             /\ ~IsUpstreamRedirect
             /\ cur.response.location.to = "none"
        ELSE (\/ cur.provider \in {"google", "custom"}
              \/ cur.provider = "auth0" /\ "AUTH0_DOMAIN" \in cur.env
              \/ cur.provider = "keycloak"
                    /\ {"KEYCLOAK_DOMAIN", "KEYCLOAK_REALM"} \subseteq cur.env) =>
                 /\ cur.response.status = 302
                 /\ cur.response.setCookie =
                        recordApproval(cur.oauthReqInfo.clientId, COOKIE_ENCRYPTION_KEY)
                 /\ cur.response.setCookie.form = "ok"
                 /\ IsUpstreamRedirect
                 /\ cur.response.location.redirect_uri = CallbackPath(cur.provider)
                 /\ [state |-> cur.response.location.state,
                     code_challenge |-> cur.response.location.code_challenge]
                        \in issued

C34_Witness ==
    /\ cur.route = "POST /authorize"
    /\ cur.provider = "auth0"
    /\ cur.response.status = 302
    /\ cur.response.setCookie.form = "ok"
    /\ IsUpstreamRedirect

\* C35: for every adapter the redirect_uri of the upstream authorize
\* redirect and the redirect_uri of the token request are both the provider's
\* /<provider>/callback on the origin of the request being served, so they
\* are equal whenever the authorize request and the callback came in on the
\* same origin.
C35_SameRedirectUri ==
    cur.pc = "sent" =>
        /\ cur.authorizeUri = [origin |-> cur.authorizeUrl.origin,
                               path |-> CallbackPath(cur.provider), query |-> ""]
        /\ cur.body.redirect_uri = [origin |-> cur.callbackUrl.origin,
                                    path |-> CallbackPath(cur.provider), query |-> ""]
        /\ "redirect_uri" \in cur.body.keys
        /\ cur.authorizeUrl.origin = cur.callbackUrl.origin =>
              cur.authorizeUri = cur.body.redirect_uri

C35_Witness ==
    /\ cur.pc = "sent"
    /\ cur.provider = "keycloak"
    /\ cur.authorizeUrl.origin = "https://alt.example"
    /\ cur.callbackUrl.origin = "https://alt.example"
    /\ cur.authorizeUrl.query # cur.callbackUrl.query
    /\ cur.authorizeUri = cur.body.redirect_uri

\* C36: the body of the token request carries a client_secret field exactly
\* when the provider is confidential and a secret value is configured: never
\* for the custom adapter, for Keycloak only when KEYCLOAK_CLIENT_SECRET is
\* set, for Google and Auth0 with the configured secret value.
C36_SecretWhenConfigured ==
    cur.pc = "sent" =>
        LET secret == cur.env[ClientSecretVar(cur.provider)]
            configured == secret \notin {UndefStr, <<>>}
        IN  /\ "client_secret" \in cur.body.keys <=>
                  (cur.provider \in {"google", "auth0", "keycloak"} /\ configured)
            /\ "client_secret" \in cur.body.keys => cur.body.client_secret = secret

\* C38: a callback consults neither the approval cookie nor a record of
\* issued states: whenever its state decodes to an object with a non-empty
\* clientId and a code is present, it sends the token request with that
\* object's codeVerifier, whether or not the state was ever issued, and on
\* upstream success hands the object to completeAuthorization as the request.
C38_CallbackTrustsState ==
    LET stateData == DecodeState(cur.state)
    IN  (/\ cur.route = "GET /callback"
         /\ ~stateData.threw
         /\ ~stateData.isNull
         /\ ~Falsy(stateData.obj.clientId)
         /\ ~Falsy(cur.code)) =>
            /\ Len(cur.calls) >= 1
            /\ cur.calls[1].to = "token"
            /\ cur.calls[1].request = stateData.obj
            /\ cur.calls[1].code_verifier = stateData.obj.codeVerifier
            /\ (/\ cur.tokenOutcome = "token"
                /\ cur.userOutcome = "payload"
                /\ cur.response # UncaughtResponse) =>
                   /\ Len(cur.calls) = 3
                   /\ cur.calls[3].to = "complete"
                   /\ cur.calls[3].request = stateData.obj

C38_Witness ==
    /\ cur.route = "GET /callback"
    /\ cur.pc = "done"
    /\ cur.response.location.to = "client"
    /\ Len(cur.calls) = 3
    /\ cur.calls[3].request = DecodeState(cur.state).obj
    /\ \A i \in issued : i.state # cur.state
    /\ jar = NoCookie

\* C39: in every adapter the userId given to completeAuthorization equals
\* the derived login; for Google both depend on the local part of the email
\* only: an account whose email has the same local part and another domain
\* is given the same login and the same userId.
C39_UserIdIsLogin ==
    cur.pc = "derived" =>
        /\ cur.identity.userId = cur.login
        /\ cur.identity.props.login = cur.login
        /\ cur.provider = "google" =>
              \A domain \in {<<"x">>, <<"y", ".", "z">>} :
                 LET other == [cur.userData EXCEPT
                                 !.email = LocalPart(@) \o <<"@">> \o domain]
                     d == DeriveLogin("google", other)
                 IN  /\ other.email # cur.userData.email
                     /\ ~d.threw
                     /\ d.login = cur.login
                     /\ IdentityArgs("google", other, cur.accessToken, d.login).userId
                          = cur.identity.userId

C39_Witness ==
    /\ cur.provider = "google"
    /\ cur.pc = "derived"
    /\ cur.userData.email = <<"a", "@", "a">>
    /\ cur.identity.userId = <<"a">>
    /\ DeriveLogin("google", [cur.userData EXCEPT !.email = <<"a", "@", "x">>]).login
         = cur.identity.userId

====
